---- MODULE Spec2Model ----
(***************************************************************************)
(* A model of the osc-fat FAT32 reader (src/osc-fat/src/lib.rs): the block *)
(* device, the ReadBuffer sector cache, the FAT32 entry decoder, the       *)
(* ClusterWalker, the DirectoryWalker and its entry iterator.              *)
(*                                                                         *)
(* Byte buffers are modelled at the granularity of a "grain", the greatest *)
(* common divisor of the sector size and the device block size.  A buffer  *)
(* is a sequence of grains; each grain holds the index of the device grain *)
(* whose bytes were copied into it (NoData for the zero bytes the caller   *)
(* allocated).  What a slice of the buffer contains is therefore decided   *)
(* by what read_blocks copied, not assumed.                                *)
(***************************************************************************)
EXTENDS Integers, Sequences, FiniteSets, TLC

VARIABLES
    device,          \* the block device: [block_size, len] (len in bytes)
    overflow_checks, \* the build: TRUE panics on integer overflow, FALSE wraps
    bpb,             \* the BIOS parameter block stored in sector 0
    fat,             \* the FAT on the device: cluster -> 4 little-endian bytes
    dir,             \* byte 0 of the directory records: <<sector, record>> -> byte
    fs,              \* the FATFileSystem (NoFs before open)
    walker,          \* the live ClusterWalker of the DirectoryWalker (NoWalker if none)
    iter,            \* the live DirectoryEntriesIterator (NoIter if none)
    out,             \* the entries handed to the sink, in order
    hist,            \* history of the walk: terminator seen, FAT lookups made
    rb,              \* a ReadBuffer driven directly (specification SpecRB)
    fat_bytes,       \* a FAT sector decoded directly (specification SpecFat)
    lfn,             \* a long-file-name record and its char iterator (SpecLfn)
    cell,            \* the RefCell of the device and the calls that borrow it (SpecCell)
    nodes_by_cluster,\* the node table of the FUSE adapter (SpecFuse)
    ev,              \* what the last operation did (its arguments, result, reads)
    pc               \* position of the caller

vars == <<device, overflow_checks, bpb, fat, dir, fs, walker, iter, out, hist,
          rb, fat_bytes, lfn, cell, nodes_by_cluster, ev, pc>>

\* The variables of the specifications beside the filesystem's.
side_vars == <<lfn, cell, nodes_by_cluster>>

\* The variables of the filesystem walk, and of the other specifications.
walk_vars == <<overflow_checks, bpb, fat, dir, fs, walker, iter, out, hist>>

NoFs == [mounted |-> FALSE]

NoWalker == [open |-> FALSE]

NoIter == [live |-> FALSE]

\* reads: the blocks the walker's ReadBuffer has asked the device for, in
\* order; sectors: the number of data sectors the walker has asked for.
NoHist == [term_len |-> -1, lookups |-> 0, start |-> -1, reads |-> <<>>,
           sectors |-> 0]

NoBpb == [bytes_per_sector |-> 0]

NoLfn == [live |-> FALSE]

NoCell == [borrows |-> 0]

\* The side variables where their specification is not the one running.
InitSide ==
    /\ lfn = NoLfn
    /\ cell = NoCell
    /\ nodes_by_cluster = <<>>

\* ------------------------------------------------------------------------
\* Arithmetic helpers
\* ------------------------------------------------------------------------
Min(a, b) == IF a <= b THEN a ELSE b

Max(a, b) == IF a >= b THEN a ELSE b

RECURSIVE GCD(_, _)
GCD(a, b) == IF b = 0 THEN a ELSE GCD(b, a % b)

\* The grain in which buffers and the device are modelled.
Grain(sector_size_bytes, block_size) == GCD(sector_size_bytes, block_size)

\* A buffer grain that no read_blocks call has written yet.
NoData == -1

\* Option::None for loaded_sectors.
None == <<>>

\* ------------------------------------------------------------------------
\* Block device (FileBlockDevice)
\* ------------------------------------------------------------------------

\* FileBlockDevice::read_blocks: copies min(available, len(dest)/block_size)
\* blocks starting at start_block to the front of dest and returns the count;
\* panics on an empty or misaligned destination, and when the start lies
\* beyond the end of the file (len - offset underflows, or read_exact fails).
read_blocks(dev, start_block, dest, g) ==
    LET block_size == dev.block_size
        dest_len   == Len(dest) * g
        offset     == start_block * block_size
    IN  IF dest_len = 0 \/ dest_len % block_size > 0 \/ offset > dev.len
        THEN [panic |-> TRUE, n |-> 0, dest |-> dest]
        ELSE LET available_bytes  == dev.len - offset
                 available_blocks == available_bytes \div block_size
                 dest_blocks      == dest_len \div block_size
                 n                == Min(available_blocks, dest_blocks)
                 read_bytes       == n * block_size
             IN  [panic |-> FALSE,
                  n     |-> n,
                  dest  |-> [k \in 1..Len(dest) |->
                               IF k * g <= read_bytes
                               THEN (offset \div g) + (k - 1)
                               ELSE dest[k]]]

\* ------------------------------------------------------------------------
\* ReadBuffer
\* ------------------------------------------------------------------------

\* ReadBuffer::new over a caller's zeroed buffer of buffer_len bytes.
ReadBuffer_new(buffer_len, sector_size_bytes, g) ==
    [buffer            |-> [k \in 1..(buffer_len \div g) |-> NoData],
     sector_size_bytes |-> sector_size_bytes,
     loaded_sectors    |-> None]

\* Range::contains on an Option<Range<u64>>.
Contains(loaded_sectors, sector_index) ==
    /\ loaded_sectors # None
    /\ loaded_sectors[1] <= sector_index
    /\ sector_index < loaded_sectors[2]

\* sector_range taking the sector's absolute index for its index in the buffer.
sector_range_absolute(rbuf, loaded_sectors, sector_index) ==
    LET byte_start == sector_index * rbuf.sector_size_bytes
        byte_end   == byte_start + rbuf.sector_size_bytes
    IN  <<byte_start, byte_end>>

\* ReadBuffer::sector_range: the byte range of a sector inside the buffer.
sector_range(rbuf, loaded_sectors, sector_index) ==
    LET relative_sector_index == sector_index - loaded_sectors[1]
        byte_start == relative_sector_index * rbuf.sector_size_bytes
        byte_end   == byte_start + rbuf.sector_size_bytes
    IN  <<byte_start, byte_end>>

\* &self.buffer[range]: the grains of a byte range; out of bounds panics.
SliceInBounds(rbuf, range, g) == range[2] <= Len(rbuf.buffer) * g

Slice(rbuf, range, g) ==
    SubSeq(rbuf.buffer, (range[1] \div g) + 1, range[2] \div g)

\* read_block_for_sector recording the loaded range from the desired sector
\* instead of from the first sector of the block that was read.
read_block_for_sector_unaligned(rbuf, dev, desired_sector_index) ==
    LET g                 == Grain(rbuf.sector_size_bytes, dev.block_size)
        sector_size_bytes == rbuf.sector_size_bytes
        block_size_bytes  == dev.block_size
        block_index  == (desired_sector_index * sector_size_bytes) \div block_size_bytes
        Loaded(rd, sectors_read) ==
            IF rd.panic \/ sectors_read = 0
            THEN [panic |-> TRUE,
                  rb    |-> [rbuf EXCEPT !.buffer = rd.dest],
                  range |-> <<0, 0>>,
                  reads |-> <<block_index>>]
            ELSE [panic |-> FALSE,
                  rb    |-> [rbuf EXCEPT !.buffer = rd.dest,
                                         !.loaded_sectors =
                                             <<desired_sector_index,
                                               desired_sector_index + sectors_read>>],
                  range |-> <<0, sector_size_bytes>>,
                  reads |-> <<block_index>>]
        Read(rd) == Loaded(rd, (rd.n * block_size_bytes) \div sector_size_bytes)
    IN  Read(read_blocks(dev, block_index, rbuf.buffer, g))

\* ReadBuffer::read_block_for_sector: refill from the device.
read_block_for_sector(rbuf, dev, desired_sector_index) ==
    LET g                 == Grain(rbuf.sector_size_bytes, dev.block_size)
        sector_size_bytes == rbuf.sector_size_bytes
        block_size_bytes  == dev.block_size
        block_index  == (desired_sector_index * sector_size_bytes) \div block_size_bytes
        first_sector == (block_index * block_size_bytes) \div sector_size_bytes
        Loaded(rd, sectors_read, loaded) ==
            IF rd.panic \/ sectors_read = 0
            THEN [panic |-> TRUE,
                  rb    |-> [rbuf EXCEPT !.buffer = rd.dest],
                  range |-> <<0, 0>>,
                  reads |-> <<block_index>>]
            ELSE [panic |-> FALSE,
                  rb    |-> [rbuf EXCEPT !.buffer = rd.dest, !.loaded_sectors = loaded],
                  range |-> sector_range(rbuf, loaded, desired_sector_index),
                  reads |-> <<block_index>>]
        Counted(rd, sectors_read) ==
            Loaded(rd, sectors_read, <<first_sector, first_sector + sectors_read>>)
        Read(rd) == Counted(rd, (rd.n * block_size_bytes) \div sector_size_bytes)
    IN  Read(read_blocks(dev, block_index, rbuf.buffer, g))

\* ensure_sector_prime refilling on every call, resident or not.
ensure_sector_prime_reload(rbuf, dev, sector_index) ==
    read_block_for_sector(rbuf, dev, sector_index)

\* ReadBuffer::ensure_sector_prime: a hit answers from the buffer, a miss
\* refills.
ensure_sector_prime(rbuf, dev, sector_index) ==
    IF Contains(rbuf.loaded_sectors, sector_index)
    THEN [panic |-> FALSE,
          rb    |-> rbuf,
          range |-> sector_range(rbuf, rbuf.loaded_sectors, sector_index),
          reads |-> <<>>]
    ELSE read_block_for_sector(rbuf, dev, sector_index)

\* ReadBuffer::ensure_sector: the load without the slice.
ensure_sector(rbuf, dev, sector_index) ==
    ensure_sector_prime(rbuf, dev, sector_index)

\* ReadBuffer::get_sector: the load, then the slice of the buffer.
get_sector(rbuf, dev, sector_index) ==
    LET g == Grain(rbuf.sector_size_bytes, dev.block_size)
        Sliced(r) ==
            IF r.panic THEN [r EXCEPT !.range = <<0, 0>>] @@ [slice |-> <<>>]
            ELSE IF ~SliceInBounds(r.rb, r.range, g)
                 THEN [r EXCEPT !.panic = TRUE] @@ [slice |-> <<>>]
                 ELSE r @@ [slice |-> Slice(r.rb, r.range, g)]
    IN  Sliced(ensure_sector_prime(rbuf, dev, sector_index))

\* ReadBuffer::get_loaded_sector: Some(slice) iff the sector is resident.
get_loaded_sector(rbuf, g, sector_index) ==
    IF Contains(rbuf.loaded_sectors, sector_index)
    THEN LET Sliced(range) ==
                 IF SliceInBounds(rbuf, range, g)
                 THEN [some |-> TRUE, panic |-> FALSE, range |-> range,
                       slice |-> Slice(rbuf, range, g)]
                 ELSE [some |-> FALSE, panic |-> TRUE, range |-> range, slice |-> <<>>]
         IN  Sliced(sector_range(rbuf, rbuf.loaded_sectors, sector_index))
    ELSE [some |-> FALSE, panic |-> FALSE, range |-> <<0, 0>>, slice |-> <<>>]

\* The grains of the device that hold sector sector_index.
DeviceSector(sector_size_bytes, g, sector_index) ==
    [k \in 1..(sector_size_bytes \div g) |->
        (sector_index * sector_size_bytes) \div g + (k - 1)]

\* ------------------------------------------------------------------------
\* Specification SpecRB: one ReadBuffer driven through its three operations
\* ------------------------------------------------------------------------

\* Sector and block sizes the ReadBuffer is exercised with.
RBSizes == {512, 1024, 4096}

\* The device holds RBDevBlocks blocks of 4096 bytes, and may end with 512
\* bytes more (half a sector of 1024 bytes).
RBDevBlocks == 3

\* Sectors 0..RBMaxSector are requested.
RBMaxSector == 17

\* The caller's buffer is 1..RBMaxBufMul times max(sector size, block size).
RBMaxBufMul == 2

InitRB ==
    /\ InitSide
    /\ \E bs \in RBSizes, tail \in {0, 512} :
          device = [block_size |-> bs, len |-> (RBDevBlocks * 4096) + tail]
    /\ \E ss \in RBSizes, m \in 1..RBMaxBufMul :
          rb = ReadBuffer_new(m * Max(ss, device.block_size), ss,
                              Grain(ss, device.block_size))
    /\ ev = [op |-> "new"]
    /\ pc = "rb"
    /\ overflow_checks = TRUE
    /\ bpb = NoBpb
    /\ fat = <<>>
    /\ dir = <<>>
    /\ fs = NoFs
    /\ walker = NoWalker
    /\ iter = NoIter
    /\ out = <<>>
    /\ hist = NoHist
    /\ fat_bytes = <<>>

RBEvent(op, i, r) ==
    [op |-> op, sector |-> i, panic |-> r.panic, reads |-> r.reads,
     range |-> r.range,
     slice |-> IF op = "get_sector" THEN r.slice ELSE <<>>,
     before |-> rb]

\* A caller asks for a sector and uses the slice.
GetSector ==
    /\ pc = "rb"
    /\ \E i \in 0..RBMaxSector :
          \E r \in {get_sector(rb, device, i)} :
              /\ rb' = r.rb
              /\ ev' = RBEvent("get_sector", i, r)
              /\ pc' = IF r.panic THEN "panic" ELSE "rb"
    /\ UNCHANGED <<side_vars, device, fat_bytes, walk_vars>>

\* A caller asks for a sector to be resident.
EnsureSector ==
    /\ pc = "rb"
    /\ \E i \in 0..RBMaxSector :
          \E r \in {ensure_sector(rb, device, i)} :
              /\ rb' = r.rb
              /\ ev' = RBEvent("ensure_sector", i, r)
              /\ pc' = IF r.panic THEN "panic" ELSE "rb"
    /\ UNCHANGED <<side_vars, device, fat_bytes, walk_vars>>

\* A caller peeks at a sector without loading it.
GetLoadedSector ==
    /\ pc = "rb"
    /\ \E i \in 0..RBMaxSector :
          \E r \in {get_loaded_sector(rb, Grain(rb.sector_size_bytes, device.block_size), i)} :
              /\ ev' = [op |-> "get_loaded_sector", sector |-> i, panic |-> r.panic,
                        some |-> r.some, range |-> r.range, slice |-> r.slice,
                        reads |-> <<>>, before |-> rb]
              /\ pc' = IF r.panic THEN "panic" ELSE "rb"
    /\ UNCHANGED <<side_vars, device, rb, fat_bytes, walk_vars>>

NextRB == GetSector \/ EnsureSector \/ GetLoadedSector

SpecRB == InitRB /\ [][NextRB]_vars

\* ------------------------------------------------------------------------
\* FAT32 sector decoder
\* ------------------------------------------------------------------------

\* u32::from_le_bytes.  A u32 is kept as its top 4 bits and its low 28 bits.
from_le_bytes(b) ==
    [top |-> b[4] \div 16,
     low |-> b[1] + 256 * b[2] + 65536 * b[3] + 16777216 * (b[4] % 16)]

\* x & 0x0FFFFFFF
MaskLow28(x) == x.low

\* The classification with the end-of-chain test off by one (> for >=).
FileAllocationTable32Result_from_gt(other) ==
    IF other > 268435448
    THEN [tag |-> "EndOfChain", n |-> 0]
    ELSE IF other = 268435447
         THEN [tag |-> "BadCluster", n |-> 0]
         ELSE [tag |-> "NextClusterIndex", n |-> other]

\* From<u32> for FileAllocationTable32Result (0x0FFFFFF8 = 268435448).
FileAllocationTable32Result_from(other) ==
    IF other >= 268435448
    THEN [tag |-> "EndOfChain", n |-> 0]
    ELSE IF other = 268435447
         THEN [tag |-> "BadCluster", n |-> 0]
         ELSE [tag |-> "NextClusterIndex", n |-> other]

\* FileAllocationTable32::get_entry on the bytes of a sector; the range
\* start..start+4 outside the sector panics.
get_entry(data, entry_byte_offset) ==
    LET start == entry_byte_offset
        end   == start + 4
    IN  IF end > Len(data)
        THEN [panic |-> TRUE, bytes |-> <<>>, result |-> [tag |-> "none", n |-> 0]]
        ELSE LET bytes == SubSeq(data, start + 1, end)
             IN  [panic  |-> FALSE,
                  bytes  |-> bytes,
                  result |-> FileAllocationTable32Result_from(
                                 MaskLow28(from_le_bytes(bytes)))]

\* ------------------------------------------------------------------------
\* Specification SpecFat: get_entry applied to FAT sectors of two entries
\* ------------------------------------------------------------------------

\* 0x00 0x03 0x0F 0xF0 0xF6 0xF7 0xF8 0xFF
ByteSamples == {0, 3, 15, 240, 246, 247, 248, 255}

InitFat ==
    /\ InitSide
    /\ \E e \in [1..4 -> ByteSamples] : fat_bytes = <<248, 255, 255, 15>> \o e
    /\ ev = [op |-> "new"]
    /\ pc = "fat"
    /\ device = [block_size |-> 512, len |-> 0]
    /\ rb = <<>>
    /\ overflow_checks = TRUE
    /\ bpb = NoBpb
    /\ fat = <<>>
    /\ dir = <<>>
    /\ fs = NoFs
    /\ walker = NoWalker
    /\ iter = NoIter
    /\ out = <<>>
    /\ hist = NoHist

\* A caller decodes the entry at a byte offset of the sector.
GetEntry ==
    /\ pc = "fat"
    /\ \E off \in {0, 4, 6} :
          \E r \in {get_entry(fat_bytes, off)} :
              /\ ev' = [op |-> "get_entry", offset |-> off, panic |-> r.panic,
                        bytes |-> r.bytes, result |-> r.result]
    /\ UNCHANGED <<side_vars, device, rb, fat_bytes, pc, walk_vars>>

NextFat == GetEntry

SpecFat == InitFat /\ [][NextFat]_vars

\* ------------------------------------------------------------------------
\* The bytes of the volume, as laid out by the BPB stored on it
\* ------------------------------------------------------------------------

\* DirectoryEntry::SIZE
DirectoryEntry_SIZE == 32

\* BIOS_PARAMETER_BLOCK_SIZE, the mount-time scratch buffer
BIOS_PARAMETER_BLOCK_SIZE == 512

\* A u32 as two 16-bit limbs, value = hi * 2^16 + lo, so that sums and
\* products beyond 2^31 are computed exactly.
U32(n) == [hi |-> n \div 65536, lo |-> n % 65536]

\* The number a u32 stands for (below 2^31 only).
U32_value(x) == (x.hi * 65536) + x.lo

\* u32 + u32: the wrapped sum and whether it passed 2^32.
u32_add(x, y) ==
    LET Sum(hi, lo) == [overflow |-> hi >= 65536,
                        value |-> [hi |-> hi % 65536, lo |-> lo % 65536]]
    IN  Sum(x.hi + y.hi + ((x.lo + y.lo) \div 65536), x.lo + y.lo)

\* u32 * n for a factor below 2^15.
u32_mul(x, n) ==
    LET Product(hi, lo) == [overflow |-> hi >= 65536,
                            value |-> [hi |-> hi % 65536, lo |-> lo % 65536]]
    IN  Product((x.hi * n) + ((x.lo * n) \div 65536), x.lo * n)

\* u32 - u32: the wrapped difference and whether it passed below zero.
u32_sub(x, y) ==
    LET Difference(hi, lo) == [overflow |-> hi < 0,
                               value |-> [hi |-> hi % 65536, lo |-> lo % 65536]]
    IN  Difference(x.hi - y.hi - (IF x.lo < y.lo THEN 1 ELSE 0), x.lo - y.lo)

\* u32 / n for a divisor in 1..2^15.
u32_div(x, n) ==
    LET Quotient(hi, lo) == [hi |-> hi + (lo \div 65536), lo |-> lo % 65536]
    IN  Quotient(x.hi \div n, (((x.hi % n) * 65536) + x.lo) \div n)

\* u32 < n for n at most 2^16.
u32_lt(x, n) == x.hi = 0 /\ x.lo < n

\* Byte 0 of a directory record: terminator, deleted slot, occupied ('A').
Terminator == 0

Deleted == 229

Occupied == 65

\* sectors_per_fat on the volume: the 16-bit field unless it is zero.
DiskSectorsPerFat ==
    IF bpb.sectors_per_fat_16 # 0 THEN bpb.sectors_per_fat_16
    ELSE U32_value(bpb.sectors_per_fat_32)

\* First byte of the FAT region and of the data region of the volume.
DiskFatBase == bpb.reserved_sector_count * bpb.bytes_per_sector

DiskDataBase ==
    (bpb.reserved_sector_count + bpb.fat_count * DiskSectorsPerFat) * bpb.bytes_per_sector

\* The four bytes of the FAT entry of cluster c; entries 0 and 1 hold the
\* media and end-of-chain markers, clusters outside the chains are free.
DiskFatEntry(c) ==
    IF c \in DOMAIN fat THEN fat[c]
    ELSE IF c = 0 THEN <<248, 255, 255, 15>>
    ELSE IF c = 1 THEN <<255, 255, 255, 255>>
    ELSE <<0, 0, 0, 0>>

\* The byte the volume holds at byte address addr.
DiskByte(addr) ==
    IF addr >= DiskDataBase
    THEN LET sector == addr \div bpb.bytes_per_sector
             record == (addr % bpb.bytes_per_sector) \div DirectoryEntry_SIZE
         IN  IF addr % DirectoryEntry_SIZE # 0 THEN Occupied
             ELSE IF <<sector, record>> \in DOMAIN dir THEN dir[<<sector, record>>]
             ELSE Occupied
    ELSE IF addr >= DiskFatBase
    THEN LET rel == (addr - DiskFatBase) % (DiskSectorsPerFat * bpb.bytes_per_sector)
         IN  DiskFatEntry(rel \div 4)[(rel % 4) + 1]
    ELSE 0

\* The device address of the byte at offset off of a slice (NoData if the
\* grain was never written), and the byte itself.
SliceAddr(slice, g, off) ==
    IF slice[(off \div g) + 1] = NoData THEN NoData
    ELSE slice[(off \div g) + 1] * g + (off % g)

SliceByte(slice, g, off) ==
    IF SliceAddr(slice, g, off) = NoData THEN 0 ELSE DiskByte(SliceAddr(slice, g, off))

SliceBytes(slice, g) == [o \in 1..(Len(slice) * g) |-> SliceByte(slice, g, o - 1)]

\* ------------------------------------------------------------------------
\* ClusterWalker
\* ------------------------------------------------------------------------

\* The block a wrapped (cluster_index - 2) leads to: (2^32 - 2 + c) *
\* cluster_size_sectors sectors into the volume, beyond every device here.
WrappedBlock == -2

WalkerGrain(w, dev) == Grain(w.geo.sector_size_bytes, dev.block_size)

\* ClusterWalker::absolute_sector_index; cluster_index - 2 underflows u32
\* when cluster_index < 2.
absolute_sector_index(w) ==
    [underflow |-> w.cluster_index < 2,
     value     |-> (w.cluster_index - 2) * w.geo.cluster_size_sectors
                     + w.geo.first_data_sector + w.cluster_sector_index]

\* ClusterWalker::ensure_sector.  On underflow the checked build panics at
\* the subtraction; the wrapping build asks the device for a block beyond
\* its end, which panics in read_blocks.
ClusterWalker_ensure_sector(w, dev, checks) ==
    LET a == absolute_sector_index(w)
        Ensured(r) == [panic |-> r.panic, underflow |-> FALSE,
                       w |-> [w EXCEPT !.buffer = r.rb], reads |-> r.reads]
    IN  IF a.underflow
        THEN [panic |-> TRUE, underflow |-> TRUE, w |-> w,
              reads |-> IF checks THEN <<>> ELSE <<WrappedBlock>>]
        ELSE Ensured(ensure_sector(w.buffer, dev, a.value))

\* ClusterWalker::open
ClusterWalker_open(buffer, cluster_index, geo, dev, checks) ==
    ClusterWalker_ensure_sector(
        [open |-> TRUE, buffer |-> buffer, cluster_index |-> cluster_index,
         cluster_sector_index |-> 0, geo |-> geo], dev, checks)

\* ClusterWalker::current_sector: the resident slice, or unreachable!().
current_sector(w, dev) ==
    LET a == absolute_sector_index(w)
        Resident(r) == IF r.some THEN [panic |-> FALSE, slice |-> r.slice]
                       ELSE [panic |-> TRUE, slice |-> <<>>]
    IN  IF a.underflow
        THEN [panic |-> TRUE, slice |-> <<>>]
        ELSE Resident(get_loaded_sector(w.buffer, WalkerGrain(w, dev), a.value))

\* next_sector advancing the index without loading the sector.
next_sector_noload(w, dev, checks) ==
    LET n == (w.cluster_sector_index + 1) % 256
    IN  IF n = w.geo.cluster_size_sectors
        THEN [ret |-> FALSE, panic |-> FALSE, underflow |-> FALSE, w |-> w, reads |-> <<>>]
        ELSE [ret |-> TRUE, panic |-> FALSE, underflow |-> FALSE,
              w |-> [w EXCEPT !.cluster_sector_index = n], reads |-> <<>>]

\* next_sector stopping one sector late (> for ==).
next_sector_late(w, dev, checks) ==
    LET n == (w.cluster_sector_index + 1) % 256
        Moved(e) == [ret |-> TRUE, panic |-> e.panic, underflow |-> e.underflow,
                     w |-> e.w, reads |-> e.reads]
    IN  IF n > w.geo.cluster_size_sectors
        THEN [ret |-> FALSE, panic |-> FALSE, underflow |-> FALSE, w |-> w, reads |-> <<>>]
        ELSE Moved(ClusterWalker_ensure_sector(
                       [w EXCEPT !.cluster_sector_index = n], dev, checks))

\* ClusterWalker::next_sector (cluster_sector_index is a u8).
next_sector(w, dev, checks) ==
    LET sum == w.cluster_sector_index + 1
        n   == sum % 256
        Moved(e) == [ret |-> TRUE, panic |-> e.panic, underflow |-> e.underflow,
                     w |-> e.w, reads |-> e.reads]
    IN  IF sum > 255 /\ checks
        THEN [ret |-> FALSE, panic |-> TRUE, underflow |-> FALSE, w |-> w, reads |-> <<>>]
        ELSE IF n = w.geo.cluster_size_sectors
        THEN [ret |-> FALSE, panic |-> FALSE, underflow |-> FALSE, w |-> w, reads |-> <<>>]
        ELSE Moved(ClusterWalker_ensure_sector(
                       [w EXCEPT !.cluster_sector_index = n], dev, checks))

NoLookup == [fat_sector |-> -1, ent_offset |-> -1, bytes |-> <<>>,
             result |-> [tag |-> "none", n |-> 0]]

fat_entry_position_fat16(cluster_index, geo) ==
    [fat_sector |-> geo.first_fat_sector + ((cluster_index * 2) \div geo.sector_size_bytes),
     ent_offset |-> (cluster_index * 2) % geo.sector_size_bytes]

\* ClusterWalker::next_cluster, its first three statements: fat_byte_offset
\* = cluster_index * 4, the FAT sector that holds it and the offset in it.
fat_entry_position(cluster_index, geo) ==
    [fat_sector |-> geo.first_fat_sector + ((cluster_index * 4) \div geo.sector_size_bytes),
     ent_offset |-> (cluster_index * 4) % geo.sector_size_bytes]

\* ClusterWalker::next_cluster: look the current cluster up in the FAT and
\* move to the cluster its entry names.
next_cluster(w, dev, checks) ==
    LET fat_sector == fat_entry_position(w.cluster_index, w.geo).fat_sector
        ent_offset == fat_entry_position(w.cluster_index, w.geo).ent_offset
        Moved(gs, look, e) ==
            [ret |-> IF e.panic THEN "panic" ELSE "some", panic |-> e.panic,
             underflow |-> e.underflow, w |-> e.w,
             reads |-> gs.reads \o e.reads, lookup |-> look]
        Matched(gs, entry, look, w1) ==
            IF gs.panic
            THEN [ret |-> "panic", panic |-> TRUE, underflow |-> FALSE, w |-> w1,
                  reads |-> gs.reads, lookup |-> [look EXCEPT !.bytes = <<>>,
                                                  !.result = [tag |-> "none", n |-> 0]]]
            ELSE IF entry.panic
            THEN [ret |-> "panic", panic |-> TRUE, underflow |-> FALSE, w |-> w1,
                  reads |-> gs.reads, lookup |-> look]
            ELSE IF entry.result.tag = "NextClusterIndex"
            THEN Moved(gs, look,
                       ClusterWalker_ensure_sector(
                           [w1 EXCEPT !.cluster_index = entry.result.n], dev, checks))
            ELSE IF entry.result.tag = "EndOfChain"
            THEN [ret |-> "none", panic |-> FALSE, underflow |-> FALSE, w |-> NoWalker,
                  reads |-> gs.reads, lookup |-> look]
            ELSE \* BadCluster => unimplemented!()
                 [ret |-> "panic", panic |-> TRUE, underflow |-> FALSE, w |-> w1,
                  reads |-> gs.reads, lookup |-> look]
        Decoded(gs, entry) ==
            Matched(gs, entry,
                    [fat_sector |-> fat_sector, ent_offset |-> ent_offset,
                     bytes |-> entry.bytes, result |-> entry.result],
                    [w EXCEPT !.buffer = gs.rb])
        Fetched(gs) ==
            Decoded(gs, get_entry(SliceBytes(gs.slice, WalkerGrain(w, dev)), ent_offset))
    IN  Fetched(get_sector(w.buffer, dev, fat_sector))

\* ------------------------------------------------------------------------
\* DirectoryWalker and DirectoryEntriesIterator
\* ------------------------------------------------------------------------

\* DirectoryWalker::occupied_entries: chunks_exact(32) over the current
\* sector.  A chunk is kept as the device address it was copied from and
\* its byte 0.
occupied_entries(w, dev) ==
    LET g == WalkerGrain(w, dev)
        Chunks(cs) ==
            IF cs.panic THEN [panic |-> TRUE, chunks |-> <<>>]
            ELSE [panic  |-> FALSE,
                  chunks |-> [k \in 1..((Len(cs.slice) * g) \div DirectoryEntry_SIZE) |->
                                [addr |-> SliceAddr(cs.slice, g, (k - 1) * DirectoryEntry_SIZE),
                                 b0   |-> SliceByte(cs.slice, g, (k - 1) * DirectoryEntry_SIZE)]]]
    IN  Chunks(current_sector(w, dev))

NoEntry == [addr |-> NoData, b0 |-> 0]

\* The iterator returning deleted records like occupied ones.
DirectoryEntriesIterator_next_keep_deleted(chunks) ==
    IF chunks = <<>>
    THEN [some |-> FALSE, entry |-> NoEntry, chunks |-> <<>>, term |-> FALSE]
    ELSE IF Head(chunks).b0 = 0
    THEN [some |-> FALSE, entry |-> Head(chunks), chunks |-> Tail(chunks), term |-> TRUE]
    ELSE [some |-> TRUE, entry |-> Head(chunks), chunks |-> Tail(chunks), term |-> FALSE]

\* DirectoryEntriesIterator::next: take chunks until one is occupied (Some)
\* or is the terminator or the chunks run out (None).
RECURSIVE DirectoryEntriesIterator_next(_)
DirectoryEntriesIterator_next(chunks) ==
    IF chunks = <<>>
    THEN [some |-> FALSE, entry |-> NoEntry, chunks |-> <<>>, term |-> FALSE]
    ELSE LET entry == Head(chunks)
         IN  IF entry.b0 = 0
             THEN [some |-> FALSE, entry |-> entry, chunks |-> Tail(chunks), term |-> TRUE]
             ELSE IF entry.b0 = 229
             THEN DirectoryEntriesIterator_next(Tail(chunks))
             ELSE [some |-> TRUE, entry |-> entry, chunks |-> Tail(chunks), term |-> FALSE]

\* DirectoryWalker::next: the next sector of the cluster, else the next
\* cluster of the chain.  mid is the walker next_sector left.
DirectoryWalker_next(w, dev, checks) ==
    LET Chained(ns, nc) ==
            [ret |-> nc.ret, panic |-> nc.panic, underflow |-> nc.underflow,
             w |-> nc.w, reads |-> nc.reads, sector_ret |-> FALSE,
             mid |-> ns.w, lookup |-> nc.lookup]
        Stepped(ns) ==
            IF ns.panic
            THEN [ret |-> "panic", panic |-> TRUE, underflow |-> ns.underflow, w |-> ns.w,
                  reads |-> ns.reads, sector_ret |-> ns.ret, mid |-> ns.w,
                  lookup |-> NoLookup]
            ELSE IF ns.ret
            THEN [ret |-> "some", panic |-> FALSE, underflow |-> FALSE, w |-> ns.w,
                  reads |-> ns.reads, sector_ret |-> TRUE, mid |-> ns.w,
                  lookup |-> NoLookup]
            ELSE Chained(ns, next_cluster(ns.w, dev, checks))
    IN  Stepped(next_sector(w, dev, checks))

\* ------------------------------------------------------------------------
\* FATFileSystem
\* ------------------------------------------------------------------------

\* DivCeiling::div_ceiling for u32: (self + (divisor - 1)) / divisor.  A
\* zero divisor underflows and then divides by zero: a panic in every build.
\* A sum past 2^32 panics in the checked build and wraps in the other.
div_ceiling(self, divisor, checks) ==
    LET Divided(sum) ==
            [panic |-> sum.overflow /\ checks, overflow |-> sum.overflow,
             value |-> u32_div(sum.value, divisor)]
    IN  IF divisor = 0 THEN [panic |-> TRUE, overflow |-> TRUE, value |-> U32(0)]
        ELSE Divided(u32_add(self, U32(divisor - 1)))

\* prim::root_dir_sector_count
root_dir_sector_count(root_entry_count, bytes_per_sector, checks) ==
    div_ceiling(U32(root_entry_count * DirectoryEntry_SIZE), bytes_per_sector, checks)

\* prim::sectors_per_fat
sectors_per_fat(b) ==
    IF b.sectors_per_fat_16 = 0 THEN b.sectors_per_fat_32 ELSE U32(b.sectors_per_fat_16)

\* prim::meta_sector_count: reserved + (sectors_per_fat * fat_count) + root
\* directory sectors, in u32.
meta_sector_count(reserved_sector_count, spf, fat_count, root_dir_sectors) ==
    LET Total(p, s, t) == [overflow |-> p.overflow \/ s.overflow \/ t.overflow,
                           value |-> t.value]
        Second(p, s) == Total(p, s, u32_add(s.value, root_dir_sectors))
        First(p) == Second(p, u32_add(U32(reserved_sector_count), p.value))
    IN  First(u32_mul(spf, fat_count))

\* CommonBiosParameterBlock::total_sectors
total_sectors(b) ==
    IF b.total_sectors_16 = 0 THEN b.total_sectors_32 ELSE U32(b.total_sectors_16)

from_cluster_count_le(cluster_count) ==
    IF u32_lt(cluster_count, 4085 + 1) THEN "Fat12"
    ELSE IF u32_lt(cluster_count, 65525 + 1) THEN "Fat16"
    ELSE "Fat32"

\* Variant::from_cluster_count
from_cluster_count(cluster_count) ==
    IF u32_lt(cluster_count, 4085) THEN "Fat12"
    ELSE IF u32_lt(cluster_count, 65525) THEN "Fat16"
    ELSE "Fat32"

\* The BPB as the 512-byte scratch buffer shows it: a field that the device
\* did not fill reads as zero (an OEM name of zero bytes is valid UTF-8).
ScratchBpb(b, read_bytes) ==
    LET F(end, v) == IF end <= read_bytes THEN v ELSE 0
        W(end, v) == IF end <= read_bytes THEN v ELSE U32(0)
    IN  [oem_utf8              |-> (11 <= read_bytes) => b.oem_utf8,
         bytes_per_sector      |-> F(13, b.bytes_per_sector),
         sectors_per_cluster   |-> F(14, b.sectors_per_cluster),
         reserved_sector_count |-> F(16, b.reserved_sector_count),
         fat_count             |-> F(17, b.fat_count),
         root_entry_count      |-> F(19, b.root_entry_count),
         total_sectors_16      |-> F(21, b.total_sectors_16),
         sectors_per_fat_16    |-> F(24, b.sectors_per_fat_16),
         total_sectors_32      |-> W(36, b.total_sectors_32),
         sectors_per_fat_32    |-> W(40, b.sectors_per_fat_32),
         root_cluster          |-> F(48, b.root_cluster)]

\* The outcome of a mount that stopped at the named step.
NoMount(cause) ==
    [panic |-> TRUE, cause |-> cause, wrapped |-> FALSE, variant |-> "none",
     count_of_clusters |-> U32(0), read_len |-> BIOS_PARAMETER_BLOCK_SIZE,
     fs |-> NoFs]

\* FATFileSystem::open: read sector 0, derive the geometry, pick the variant.
\* Every sum, product and difference is a u32: the checked build panics when
\* one leaves the range, the other build goes on with the wrapped value.
FATFileSystem_open(dev, disk_bpb, checks) ==
    LET g == Grain(BIOS_PARAMETER_BLOCK_SIZE, dev.block_size)
        Opened(b, meta, count, variant, wrapped) ==
            IF variant \in {"Fat12", "Fat16"}
            THEN [NoMount("unimplemented") EXCEPT !.variant = variant,
                      !.count_of_clusters = count, !.wrapped = wrapped]
            ELSE IF ~b.oem_utf8
            THEN [NoMount("utf8") EXCEPT !.variant = variant,
                      !.count_of_clusters = count, !.wrapped = wrapped]
            ELSE [panic |-> FALSE, cause |-> "none", wrapped |-> wrapped,
                  variant |-> variant, count_of_clusters |-> count,
                  read_len |-> BIOS_PARAMETER_BLOCK_SIZE,
                  fs |-> [mounted           |-> TRUE,
                          device_block_size |-> dev.block_size,
                          variant           |-> variant,
                          root_cluster      |-> b.root_cluster,
                          geo |-> [cluster_size_sectors |-> b.sectors_per_cluster,
                                   sector_size_bytes    |-> b.bytes_per_sector,
                                   first_fat_sector     |-> b.reserved_sector_count,
                                   first_data_sector    |-> U32_value(meta)]]]
        Counted(b, meta, count, wrapped) ==
            Opened(b, meta, count, from_cluster_count(count), wrapped)
        Sized(b, rds, meta, data) ==
            IF data.overflow /\ checks THEN NoMount("underflow")
            ELSE IF b.sectors_per_cluster = 0 THEN NoMount("div_zero")
            ELSE Counted(b, meta.value, u32_div(data.value, b.sectors_per_cluster),
                         rds.overflow \/ meta.overflow \/ data.overflow)
        Summed(b, rds, meta) ==
            IF meta.overflow /\ checks THEN NoMount("overflow")
            ELSE Sized(b, rds, meta, u32_sub(total_sectors(b), meta.value))
        Rooted(b, rds) ==
            IF rds.panic THEN NoMount("div_ceiling")
            ELSE Summed(b, rds, meta_sector_count(b.reserved_sector_count,
                                    sectors_per_fat(b), b.fat_count, rds.value))
        Parsed(b) ==
            Rooted(b, root_dir_sector_count(b.root_entry_count, b.bytes_per_sector, checks))
        Loaded(rd) ==
            IF rd.panic THEN NoMount("read_blocks")
            ELSE Parsed(ScratchBpb(disk_bpb, rd.n * dev.block_size))
    IN  Loaded(read_blocks(dev, 0,
                 [k \in 1..(BIOS_PARAMETER_BLOCK_SIZE \div g) |-> NoData], g))

\* prim::first_sector_of_cluster: ((cluster - 2) * sectors_per_cluster) +
\* first_data_sector in u32; cluster - 2 underflows when cluster < 2.
first_sector_of_cluster(cluster, sectors_per_cluster, first_data_sector) ==
    [underflow |-> cluster < 2,
     value     |-> ((cluster - 2) * sectors_per_cluster) + first_data_sector]

\* FATFileSystem::read into a caller's buffer of buffer_len bytes: the
\* sector number of the cluster is handed to read_blocks as the number of
\* the first block, and the count read_blocks returns is dropped.  After an
\* underflow the checked build panics at the subtraction and the wrapping
\* build asks for a block beyond the device, which panics in read_blocks.
FATFileSystem_read(f, dev, file_first_cluster, buffer_len, checks) ==
    LET g == Grain(f.geo.sector_size_bytes, dev.block_size)
        Filled(first_sector) ==
            IF first_sector.underflow
            THEN [panic |-> TRUE, n |-> 0, dest |-> [k \in 1..(buffer_len \div g) |-> NoData]]
            ELSE read_blocks(dev, first_sector.value,
                             [k \in 1..(buffer_len \div g) |-> NoData], g)
    IN  Filled(first_sector_of_cluster(file_first_cluster, f.geo.cluster_size_sectors,
                                       f.geo.first_data_sector))

\* FATFileSystem::required_read_buffer_size
required_read_buffer_size(f) ==
    Max(f.geo.sector_size_bytes, f.device_block_size)

\* FATFileSystem::walk_directory over a caller's buffer of buffer_len bytes;
\* the selector is <<"Root">> or <<"Normal", cluster>>.
walk_directory(f, dev, buffer_len, directory, checks) ==
    LET buffer == ReadBuffer_new(buffer_len, f.geo.sector_size_bytes,
                                 Grain(f.geo.sector_size_bytes, dev.block_size))
    IN  IF directory[1] = "Normal"
        THEN ClusterWalker_open(buffer, directory[2], f.geo, dev, checks)
        ELSE IF f.variant = "Fat32"
        THEN ClusterWalker_open(buffer, f.root_cluster, f.geo, dev, checks)
        ELSE [panic |-> TRUE, underflow |-> FALSE, w |-> NoWalker, reads |-> <<>>]

\* ------------------------------------------------------------------------
\* Specification Spec: mount a volume, open a directory and enumerate it
\* the way enumerate_occupied_entries does: poll occupied_entries of the
\* current sector until it returns none, then DirectoryWalker::next.
\* ------------------------------------------------------------------------

\* The sector size is a power of two, as the block sizes of a device are:
\* sectors hold 2^MainSectorShift directory records of 32 bytes.
MainSectorShift == 1

MainSectorRecords == 2 ^ MainSectorShift

\* Clusters hold 1..MaxCss sectors (a BPB with 0 is drawn too).
MaxCss == 2

\* The chains run over cluster 2 and cluster FarCluster, whose FAT entry
\* lies in the second FAT sector.
FarCluster == 17

\* At most MaxSpecial records of a directory are deleted or terminators.
MaxSpecial == 2

\* A walk makes at most MaxLookups FAT lookups (cyclic chains never end).
MaxLookups == 3

\* One sector is enumerated with SoloRecords records.
SoloRecords == 5

Clusters == {2, FarCluster}

\* Little-endian bytes of a small cluster number.
LE(n) == <<n % 256, n \div 256, 0, 0>>

\* FAT entries drawn for a cluster: a cluster of the chain, the same with
\* the reserved top bits set, end of chain, bad cluster, the reserved
\* value 1.
FatRaws ==
    {LE(c) : c \in Clusters}
      \cup {<<FarCluster, 0, 0, 240>>, <<255, 255, 255, 15>>,
            <<247, 255, 255, 15>>, <<1, 0, 0, 0>>}

\* The BPB of a FAT32 volume with the given sector and cluster size.
MainBpb(bytes_per_sector, sectors_per_cluster) ==
    [oem_utf8              |-> TRUE,
     bytes_per_sector      |-> bytes_per_sector,
     sectors_per_cluster   |-> sectors_per_cluster,
     reserved_sector_count |-> 8,
     fat_count             |-> 2,
     root_entry_count      |-> 0,
     total_sectors_16      |-> 0,
     sectors_per_fat_16    |-> 0,
     total_sectors_32      |-> U32(300000),
     sectors_per_fat_32    |-> U32(2),
     root_cluster          |-> 2]

MainFirstDataSector == 12

\* The data sectors of the clusters of the chains, and their records.
DataSectors(css) ==
    {MainFirstDataSector + (c - 2) * css + k : c \in Clusters, k \in 0..(css - 1)}

\* The records that may be deleted or terminators: the first and the last
\* record of the first and the last sector of each cluster.
BoundaryRecords(css, n) ==
    {s \in DataSectors(css) : (s - MainFirstDataSector) % css \in {0, css - 1}}
        \X {0, n - 1}

\* The device ends with the block that holds the last sector of cluster
\* FarCluster: it is made of whole blocks, of up to two sectors.
MainDevice(bytes_per_sector, block_size) ==
    LET sectors == MainFirstDataSector + (FarCluster - 1) * MaxCss
    IN  [block_size |-> block_size,
         len |-> (sectors + (sectors % 2)) * bytes_per_sector]

InitCommon ==
    /\ InitSide
    /\ fs = NoFs
    /\ walker = NoWalker
    /\ iter = NoIter
    /\ out = <<>>
    /\ hist = NoHist
    /\ rb = <<>>
    /\ fat_bytes = <<>>
    /\ ev = [op |-> "new"]
    /\ pc = "unopened"

\* Any FAT, any cluster size, block sizes below, at and above the sector
\* size, both builds; every record occupied.
InitChains ==
    /\ overflow_checks \in BOOLEAN
    /\ \E css \in 0..MaxCss : bpb = MainBpb(MainSectorRecords * DirectoryEntry_SIZE, css)
    /\ \E bs \in {bpb.bytes_per_sector \div 2, bpb.bytes_per_sector,
                  bpb.bytes_per_sector * 2} :
          device = MainDevice(bpb.bytes_per_sector, bs)
    /\ fat \in [Clusters -> FatRaws]
    /\ dir = <<>>

\* Chains over the two clusters, directories with a few deleted records and
\* terminators anywhere.
InitRecords ==
    /\ overflow_checks = TRUE
    /\ \E css \in 1..MaxCss : bpb = MainBpb(MainSectorRecords * DirectoryEntry_SIZE, css)
    /\ device = MainDevice(bpb.bytes_per_sector, bpb.bytes_per_sector)
    /\ fat \in [Clusters -> {LE(2), LE(FarCluster), <<255, 255, 255, 15>>}]
    /\ \E S \in SUBSET BoundaryRecords(bpb.sectors_per_cluster, MainSectorRecords) :
          /\ Cardinality(S) <= MaxSpecial
          /\ dir \in [S -> {Terminator, Deleted}]

\* A directory of one sector of SoloRecords records of any kind.
InitSolo ==
    /\ overflow_checks = TRUE
    /\ bpb = MainBpb(SoloRecords * DirectoryEntry_SIZE, 1)
    /\ device = MainDevice(bpb.bytes_per_sector, DirectoryEntry_SIZE)
    /\ fat = [c \in Clusters |-> <<255, 255, 255, 15>>]
    /\ dir \in [{MainFirstDataSector} \X (0..(SoloRecords - 1)) ->
                  {Terminator, Deleted, Occupied}]

Init == InitCommon /\ (InitChains \/ InitRecords \/ InitSolo)

\* FATFileSystem::open
FATFileSystemOpen ==
    /\ pc = "unopened"
    /\ \E r \in {FATFileSystem_open(device, bpb, overflow_checks)} :
           /\ fs' = r.fs
           /\ ev' = [op |-> "open", panic |-> r.panic, cause |-> r.cause,
                     wrapped |-> r.wrapped, variant |-> r.variant,
                     count_of_clusters |-> r.count_of_clusters,
                     read_len |-> r.read_len]
           /\ pc' = IF r.panic THEN "panic" ELSE "mounted"
    /\ UNCHANGED <<side_vars, device, overflow_checks, bpb, fat, dir, walker, iter, out, hist,
                   rb, fat_bytes>>

\* The caller's view of a walker: its position and what is resident.
Position(w) ==
    [cluster_index |-> w.cluster_index,
     cluster_sector_index |-> w.cluster_sector_index,
     loaded_sectors |-> w.buffer.loaded_sectors]

\* FATFileSystem::walk_directory with a buffer of required_read_buffer_size
\* bytes, on the root or on a given first cluster.
WalkDirectory ==
    /\ pc = "mounted"
    /\ \E directory \in {<<"Root">>} \cup {<<"Normal", c>> : c \in {1, FarCluster}} :
          \E r \in {walk_directory(fs, device, required_read_buffer_size(fs),
                                    directory, overflow_checks)} :
              /\ walker' = IF r.panic THEN NoWalker ELSE r.w
              /\ ev' = [op |-> "walk_directory", directory |-> directory,
                        panic |-> r.panic, underflow |-> r.underflow,
                        reads |-> r.reads]
              /\ hist' = [hist EXCEPT !.start =
                              IF directory[1] = "Normal" THEN directory[2]
                              ELSE fs.root_cluster,
                                       !.reads = r.reads,
                                       !.sectors = 1]
              /\ pc' = IF r.panic THEN "panic" ELSE "walk"
    /\ UNCHANGED <<side_vars, device, overflow_checks, bpb, fat, dir, fs, iter, out,
                   rb, fat_bytes>>

\* FATFileSystem::read of the first cluster of a file into a buffer of one
\* cluster.
FATFileSystemRead ==
    /\ pc = "mounted"
    /\ \E c \in {1} \cup Clusters :
          \E r \in {FATFileSystem_read(fs, device, c,
                        fs.geo.cluster_size_sectors * fs.geo.sector_size_bytes,
                        overflow_checks)} :
              /\ ev' = [op |-> "read", cluster |-> c, panic |-> r.panic,
                        n |-> r.n, dest |-> r.dest]
              /\ pc' = IF r.panic THEN "panic" ELSE "mounted"
    /\ UNCHANGED <<side_vars, device, overflow_checks, bpb, fat, dir, fs, walker, iter, out,
                   hist, rb, fat_bytes>>

\* DirectoryWalker::occupied_entries on the current sector.
OccupiedEntries ==
    /\ pc = "walk"
    /\ \E r \in {occupied_entries(walker, device)} :
           /\ iter' = IF r.panic THEN NoIter
                      ELSE [live |-> TRUE, chunks |-> r.chunks, yielded |-> <<>>]
           /\ ev' = [op |-> "occupied_entries", panic |-> r.panic]
           /\ pc' = IF r.panic THEN "panic" ELSE "iter"
    /\ UNCHANGED <<side_vars, device, overflow_checks, bpb, fat, dir, fs, walker, out, hist,
                   rb, fat_bytes>>

\* DirectoryEntriesIterator::next; an entry it returns goes to the sink.
EntriesNext ==
    /\ pc = "iter"
    /\ \E r \in {DirectoryEntriesIterator_next(iter.chunks)} :
           /\ iter' = [iter EXCEPT !.chunks = r.chunks,
                                   !.yielded = IF r.some THEN Append(@, r.entry) ELSE @]
           /\ out' = IF r.some THEN Append(out, r.entry) ELSE out
           /\ hist' = IF r.term /\ hist.term_len = -1
                      THEN [hist EXCEPT !.term_len = Len(out)] ELSE hist
           /\ ev' = [op |-> "entries_next", some |-> r.some, entry |-> r.entry,
                     term |-> r.term, panic |-> FALSE]
           /\ pc' = IF r.some THEN "iter" ELSE "advance"
    /\ UNCHANGED <<side_vars, device, overflow_checks, bpb, fat, dir, fs, walker, rb, fat_bytes>>

\* DirectoryWalker::next, called when the sector's entries are exhausted.
DirectoryWalkerNext ==
    /\ pc = "advance"
    /\ hist.lookups < MaxLookups
    /\ \E r \in {DirectoryWalker_next(walker, device, overflow_checks)} :
           /\ walker' = IF r.ret = "some" THEN r.w ELSE NoWalker
           /\ iter' = NoIter
           /\ hist' = [hist EXCEPT !.lookups = IF r.lookup.fat_sector # -1
                                                THEN @ + 1 ELSE @,
                                    !.reads = @ \o r.reads,
                                    !.sectors =
                                        IF r.sector_ret
                                           \/ r.lookup.result.tag = "NextClusterIndex"
                                        THEN @ + 1 ELSE @]
           /\ ev' = [op |-> "next", ret |-> r.ret, panic |-> r.panic,
                     underflow |-> r.underflow, reads |-> r.reads,
                     sector_ret |-> r.sector_ret, lookup |-> r.lookup,
                     before |-> Position(walker), mid |-> Position(r.mid)]
           /\ pc' = CASE r.ret = "some" -> "walk"
                      [] r.ret = "none" -> "done"
                      [] OTHER          -> "panic"
    /\ UNCHANGED <<side_vars, device, overflow_checks, bpb, fat, dir, fs, out, rb, fat_bytes>>

Next == FATFileSystemOpen \/ FATFileSystemRead \/ WalkDirectory \/ OccupiedEntries
          \/ EntriesNext \/ DirectoryWalkerNext

Spec == Init /\ [][Next]_vars

\* The steps of the loop of enumerate_occupied_entries as changes of pc.
\* The only step of Next from "walk" is OccupiedEntries and the only one
\* from "advance" is DirectoryWalkerNext; both always leave their pc, so
\* these are the two actions seen through pc alone.
LoopTakesEntries == pc = "walk" /\ pc' \in {"iter", "panic"}

LoopCallsNext ==
    /\ pc = "advance"
    /\ hist.lookups < MaxLookups
    /\ pc' \in {"walk", "done", "panic"}

\* The loop of enumerate_occupied_entries keeps going: it takes every entry
\* of the sector and then calls next, until next returns None.
SpecLoop ==
    /\ Spec
    /\ WF_pc(LoopTakesEntries) /\ WF_vars(EntriesNext) /\ WF_pc(LoopCallsNext)

\* ------------------------------------------------------------------------
\* SpecMount: FATFileSystem::open over BIOS parameter blocks of every kind
\* ------------------------------------------------------------------------

\* Cluster counts on both sides of the two thresholds of the variant.
MountClusterCounts == {4084, 4085, 65524, 65525}

\* Sectors per FAT: an ordinary value, and two whose product with the FAT
\* count or whose sum with the reserved sectors leaves the u32 range
\* (2^31 - 2 and 2^31).
MountSectorsPerFat32 ==
    {U32(1000), [hi |-> 32767, lo |-> 65534], [hi |-> 32768, lo |-> 0]}

\* Every field of the BPB but the two sector totals.
MountFields ==
    [oem_utf8              : BOOLEAN,
     bytes_per_sector      : {0, 100, 512, 4096},
     sectors_per_cluster   : {0, 1, 3, 8},
     reserved_sector_count : {8},
     fat_count             : {2, 4},
     root_entry_count      : {0, 512},
     sectors_per_fat_16    : {0, 9},
     sectors_per_fat_32    : MountSectorsPerFat32,
     root_cluster          : {2, 5}]

\* The metadata sectors the fields describe, where that is a small number.
MountMeta(b) ==
    LET spf == IF b.sectors_per_fat_16 # 0 THEN b.sectors_per_fat_16
               ELSE IF b.sectors_per_fat_32.hi = 0 THEN b.sectors_per_fat_32.lo
               ELSE 0
        rds == IF b.bytes_per_sector = 0 THEN 0
               ELSE ((b.root_entry_count * DirectoryEntry_SIZE) + (b.bytes_per_sector - 1))
                        \div b.bytes_per_sector
    IN  b.reserved_sector_count + (spf * b.fat_count) + rds

\* Totals that put the cluster count at a threshold, with and without a
\* partial last cluster, and a volume smaller than its metadata.
MountTotals(b) ==
    {5} \cup {MountMeta(b) + (b.sectors_per_cluster * k) + j :
                 k \in MountClusterCounts,
                 j \in {0, Max(b.sectors_per_cluster, 1) - 1}}

InitMount ==
    /\ InitCommon
    /\ overflow_checks \in BOOLEAN
    /\ device \in {[block_size |-> 512, len |-> 4096],
                   [block_size |-> 256, len |-> 4096],
                   [block_size |-> 4096, len |-> 8192],
                   [block_size |-> 512, len |-> 0]}
    /\ \E b \in MountFields :
           \E t32 \in MountTotals(b), t16 \in {0} \cup {t \in MountTotals(b) : t < 65536} :
               bpb = b @@ [total_sectors_32 |-> U32(t32), total_sectors_16 |-> t16]
    /\ fat = <<>>
    /\ dir = <<>>

NextMount == FATFileSystemOpen

SpecMount == InitMount /\ [][NextMount]_vars

\* ------------------------------------------------------------------------
\* Properties of the ReadBuffer (checked under SpecRB)
\* ------------------------------------------------------------------------

\* The last operation was a load (get_sector or ensure_sector) that returned.
RBLoaded == ev.op \in {"get_sector", "ensure_sector"} /\ ~ev.panic

RBGrain == Grain(rb.sector_size_bytes, device.block_size)

\* C8: every get_sector / ensure_sector call for sector i that returns ends
\* with loaded_sectors containing i, and the slice get_sector(i) hands out is
\* exactly the sector_size bytes the device holds at byte offset
\* i * sector_size, taken from buffer offset (i - loaded_sectors.start) *
\* sector_size.
C8_GetSectorYieldsDeviceSector ==
    RBLoaded =>
        /\ Contains(rb.loaded_sectors, ev.sector)
        /\ ev.op = "get_sector" =>
              /\ ev.slice = DeviceSector(rb.sector_size_bytes, RBGrain, ev.sector)
              /\ ev.range[1] = (ev.sector - rb.loaded_sectors[1]) * rb.sector_size_bytes
              /\ ev.range[2] = ev.range[1] + rb.sector_size_bytes
              /\ ev.slice = Slice(rb, ev.range, RBGrain)

\* C8 witness: a get_sector that missed, refilled, and returned a sector that
\* is not the first one of the loaded range.
C8_Witness ==
    /\ ev.op = "get_sector" /\ ~ev.panic
    /\ ev.reads # <<>>
    /\ ev.range[1] > 0
    /\ ev.before.loaded_sectors # None

\* C9: a load of a sector that is already inside loaded_sectors issues no
\* read_blocks call and leaves loaded_sectors and the buffer unchanged; so two
\* loads of the same sector in succession issue at most one read in total.
C9_LoadIdempotent ==
    [][ /\ (ev'.op \in {"get_sector", "ensure_sector"}
            /\ Contains(rb.loaded_sectors, ev'.sector))
           => (ev'.reads = <<>> /\ ~ev'.panic /\ rb' = rb)
        /\ (RBLoaded /\ ev'.op \in {"get_sector", "ensure_sector"}
            /\ ev'.sector = ev.sector)
           => (Len(ev.reads) + Len(ev'.reads) <= 1 /\ rb' = rb) ]_vars

\* C9 witness: an ensure_sector that found its sector resident after an
\* earlier refill.
C9_Witness ==
    /\ ev.op = "ensure_sector" /\ ~ev.panic
    /\ ev.reads = <<>>
    /\ Contains(ev.before.loaded_sectors, ev.sector)
    /\ rb = ev.before

\* The buffer is exactly one block and the block is a multiple of the sector.
OneBlockBuffer ==
    /\ device.block_size % rb.sector_size_bytes = 0
    /\ Len(rb.buffer) * RBGrain = device.block_size

\* C10: on a miss for sector i, with block_size a multiple of sector_size
\* and a buffer of one block, one read_blocks call is issued at block
\* (i * sector_size) div block_size and loaded_sectors becomes the
\* block_size / sector_size sectors of that block; with 4096-byte blocks and
\* 512-byte sectors sector 9 reads block 1 and loads sectors 8..15, sectors
\* 8..15 then cost no read, and sector 16 costs one read at block 2.
C10_MissReadsContainingBlock ==
    (RBLoaded /\ OneBlockBuffer) =>
        LET ss == rb.sector_size_bytes
            bs == device.block_size
            block_index == (ev.sector * ss) \div bs
            miss == ~Contains(ev.before.loaded_sectors, ev.sector)
        IN  /\ miss =>
                 /\ ev.reads = <<block_index>>
                 /\ rb.loaded_sectors =
                       <<(block_index * bs) \div ss,
                         (block_index * bs) \div ss + bs \div ss>>
            /\ (ss = 512 /\ bs = 4096) =>
                 /\ (ev.sector = 9 /\ miss) =>
                       (ev.reads = <<1>> /\ rb.loaded_sectors = <<8, 16>>)
                 /\ (ev.before.loaded_sectors = <<8, 16>> /\ ev.sector \in 8..15)
                       => ev.reads = <<>>
                 /\ (ev.before.loaded_sectors = <<8, 16>> /\ ev.sector = 16)
                       => (ev.reads = <<2>> /\ rb.loaded_sectors = <<16, 24>>)

\* C10 witness: sectors 8..15 were resident and sector 16 was read from
\* block 2.
C10_Witness ==
    /\ RBLoaded /\ OneBlockBuffer
    /\ rb.sector_size_bytes = 512 /\ device.block_size = 4096
    /\ ev.before.loaded_sectors = <<8, 16>>
    /\ ev.sector = 16
    /\ ev.reads = <<2>>

\* The number of blocks the device returns for the refill the last
\* operation asked for, and the number of sectors they make.
RBBlocksRead ==
    Min((device.len - ev.reads[1] * device.block_size) \div device.block_size,
        (Len(rb.buffer) * RBGrain) \div device.block_size)

RBSectorsRead == (RBBlocksRead * device.block_size) \div rb.sector_size_bytes

\* The last operation was a load that needed a refill, and read_blocks
\* returned a count that makes no whole sector.
RBShortRead ==
    /\ ev.op \in {"get_sector", "ensure_sector"}
    /\ ev.reads # <<>>
    /\ ev.reads[1] * device.block_size <= device.len
    /\ RBSectorsRead = 0

\* C14: when a refill is needed and read_blocks returns a count that makes
\* zero sectors, the operation fails with DeviceShortRead as a recoverable
\* error (the process is not aborted) and loaded_sectors is not replaced.
C14_ShortReadIsRecoverable ==
    RBShortRead =>
        /\ rb.loaded_sectors = ev.before.loaded_sectors
        /\ pc # "panic"

\* ------------------------------------------------------------------------
\* Properties of the walkers (checked under Spec) and of the decoder
\* (checked under SpecFat)
\* ------------------------------------------------------------------------

\* A walker is live.
WalkerLive == pc \in {"walk", "iter", "advance"}

\* The absolute index of the first sector of cluster c on this volume.
FirstSectorOf(c) ==
    fs.geo.first_data_sector + (c - 2) * fs.geo.cluster_size_sectors

\* The sector the walker's position stands for.
PositionSector == FirstSectorOf(walker.cluster_index) + walker.cluster_sector_index

\* The grains of the device that hold absolute sector i of the volume.
VolumeSector(i) ==
    DeviceSector(fs.geo.sector_size_bytes,
                 Grain(fs.geo.sector_size_bytes, device.block_size), i)

\* Byte 0 of record k of sector i, read off the volume.
RecordByte0(i, k) ==
    DiskByte(i * bpb.bytes_per_sector + k * DirectoryEntry_SIZE)

RecordAddr(i, k) == i * bpb.bytes_per_sector + k * DirectoryEntry_SIZE

RecordsPerSector == bpb.bytes_per_sector \div DirectoryEntry_SIZE

\* The addresses of a sequence of entries.
Addrs(entries) == [j \in 1..Len(entries) |-> entries[j].addr]


\* C2: a walker returned by next_cluster stands on the first sector of the
\* cluster n named by the FAT entry: cluster_sector_index = 0 and
\* current_sector() is sector first_data_sector + (n - 2) *
\* cluster_size_sectors.
C2_NextClusterAtFirstSector ==
    (ev.op = "next" /\ ~ev.sector_ret /\ ev.ret = "some") =>
        /\ walker.cluster_index = ev.lookup.result.n
        /\ walker.cluster_sector_index = 0
        /\ current_sector(walker, device) =
              [panic |-> FALSE, slice |-> VolumeSector(FirstSectorOf(ev.lookup.result.n))]

\* The cluster the FAT of the volume names after c: 0 for end of chain, -1
\* for an entry that is no cluster of the chains.
FatSuccessor(c) ==
    LET b == DiskFatEntry(c)
        m == b[1] + 256 * b[2] + 65536 * b[3] + 16777216 * (b[4] % 16)
    IN  IF m >= 268435448 THEN 0 ELSE IF m \in Clusters THEN m ELSE -1

\* The clusters of the chain that starts at c, or <<-1>> when it does not
\* reach end of chain within fuel clusters.
RECURSIVE ChainFrom(_, _)
ChainFrom(c, fuel) ==
    IF c = 0 THEN <<>>
    ELSE IF c = -1 \/ fuel = 0 \/ c \notin Clusters THEN <<-1>>
    ELSE LET rest == ChainFrom(FatSuccessor(c), fuel - 1)
         IN  IF rest = <<-1>> THEN <<-1>> ELSE <<c>> \o rest

DirectoryChain == ChainFrom(hist.start, Cardinality(Clusters))

\* C1: once a record whose byte 0 is 0x00 has been met, the sink is applied
\* to no further entry of the directory (stated for the directories whose
\* chain is well formed: it reaches end of chain without repeating a cluster).
C1_NoEntryAfterTerminator ==
    (hist.term_len # -1 /\ DirectoryChain # <<-1>>) => Len(out) = hist.term_len

\* The records of the sectors of a chain of clusters, in on-disk order.
RECURSIVE ChainRecords(_)
ChainRecords(chain) ==
    IF chain = <<>> THEN <<>>
    ELSE LET css == bpb.sectors_per_cluster
             n   == RecordsPerSector
             first == bpb.reserved_sector_count + bpb.fat_count * DiskSectorsPerFat
                        + (Head(chain) - 2) * css
         IN  [j \in 1..(css * n) |->
                 [addr |-> RecordAddr(first + (j - 1) \div n, (j - 1) % n),
                  b0   |-> RecordByte0(first + (j - 1) \div n, (j - 1) % n)]]
               \o ChainRecords(Tail(chain))

NotDeleted(e) == e.b0 # Deleted

\* C3: for a directory whose chain reaches end of chain and whose records
\* hold no terminator, enumerate_occupied_entries applies the sink exactly
\* once to every record whose byte 0 is not 0xE5, in on-disk order.
C3_EveryOccupiedEntryOnce ==
    (/\ pc = "done"
     /\ DirectoryChain # <<-1>>
     /\ \A j \in 1..Len(ChainRecords(DirectoryChain)) :
            ChainRecords(DirectoryChain)[j].b0 # Terminator)
    => out = SelectSeq(ChainRecords(DirectoryChain), NotDeleted)

\* C4: whenever a walker is live, the sector at first_data_sector +
\* (cluster_index - 2) * cluster_size_sectors + cluster_sector_index is
\* resident in its read buffer and is what current_sector() returns.
C4_CurrentSectorResident ==
    /\ WalkerLive =>
          /\ Contains(walker.buffer.loaded_sectors, PositionSector)
          /\ current_sector(walker, device) =
                [panic |-> FALSE, slice |-> VolumeSector(PositionSector)]
    /\ ev.op = "occupied_entries" => ~ev.panic

\* C4 witness: a walker opened on a cluster and advanced by next_sector,
\* standing on the second sector of the cluster.
C4_Witness ==
    /\ WalkerLive
    /\ ev.op = "next" /\ ev.sector_ret
    /\ walker.cluster_sector_index = 1
    /\ walker.cluster_index = FarCluster
    /\ current_sector(walker, device).slice = VolumeSector(FirstSectorOf(FarCluster) + 1)

\* C5: next_sector returns true, adds one to cluster_sector_index and makes
\* the new sector resident exactly when cluster_sector_index + 1 <
\* cluster_size_sectors; otherwise it returns false and leaves the position
\* and loaded_sectors as they were; cluster_sector_index stays in
\* [0, cluster_size_sectors).
C5_NextSectorWithinCluster ==
    /\ WalkerLive =>
          /\ fs.geo.cluster_size_sectors >= 1
          /\ walker.cluster_sector_index \in 0..(fs.geo.cluster_size_sectors - 1)
    /\ (ev.op = "next" /\ (ev.sector_ret \/ ~ev.panic)) =>
          /\ ev.sector_ret <=>
                (ev.before.cluster_sector_index + 1 < fs.geo.cluster_size_sectors)
          /\ ev.sector_ret =>
                /\ ev.mid.cluster_sector_index = ev.before.cluster_sector_index + 1
                /\ ev.mid.cluster_index = ev.before.cluster_index
                /\ ~ev.panic =>
                      Contains(ev.mid.loaded_sectors,
                               FirstSectorOf(ev.mid.cluster_index)
                                 + ev.mid.cluster_sector_index)
          /\ ~ev.sector_ret => ev.mid = ev.before

\* C5 witness: next_sector returned false on the last sector of a cluster
\* of two sectors, after having returned true on the first.
C5_Witness ==
    /\ ev.op = "next" /\ ~ev.sector_ret
    /\ fs.geo.cluster_size_sectors = 2
    /\ ev.before.cluster_sector_index = 1
    /\ ev.mid = ev.before

\* The records of sector i that precede its first terminator and are not
\* deleted, in on-disk order.
SectorOccupied(i) ==
    LET n     == RecordsPerSector
        terms == {k \in 0..(n - 1) : RecordByte0(i, k) = Terminator}
        limit == IF terms = {} THEN n
                 ELSE CHOOSE k \in terms : \A t \in terms : k <= t
        prefix == [j \in 1..limit |->
                     [addr |-> RecordAddr(i, j - 1), b0 |-> RecordByte0(i, j - 1)]]
    IN  SelectSeq(prefix, NotDeleted)

\* C6: for one sector, the entries occupied_entries() yields until it first
\* returns none are the records before the first record whose byte 0 is
\* 0x00, without those whose byte 0 is 0xE5, in on-disk order; no deleted
\* record and no record of another sector is yielded.
C6_SectorEntries ==
    /\ pc = "advance" => iter.yielded = SectorOccupied(PositionSector)
    /\ pc = "iter" =>
          \A j \in 1..Len(iter.yielded) :
             /\ iter.yielded[j].b0 \notin {Terminator, Deleted}
             /\ iter.yielded[j].addr \div bpb.bytes_per_sector = PositionSector

\* C6 witness: the sector [A, deleted, B, terminator, C] yielded A and B and
\* then none.
C6_Witness ==
    /\ pc = "advance"
    /\ RecordsPerSector = 5
    /\ [k \in 0..4 |-> RecordByte0(PositionSector, k)]
          = [k \in 0..4 |-> <<Occupied, Deleted, Occupied, Terminator, Occupied>>[k + 1]]
    /\ Addrs(iter.yielded) = <<RecordAddr(PositionSector, 0), RecordAddr(PositionSector, 2)>>

\* The chain of the directory is 2 -> FarCluster -> end of chain.
TwoClusterChain ==
    /\ hist.start = 2
    /\ DirectoryChain = <<2, FarCluster>>

\* C11 as claimed: over the sector requests made through one ReadBuffer (the
\* data and FAT sectors a ClusterWalker asks for along a well-formed
\* chain), no block is read from the device more than once.
C11_NoBlockReadTwice ==
    DirectoryChain # <<-1>> =>
        \A i, j \in 1..Len(hist.reads) : hist.reads[i] = hist.reads[j] => i = j

\* C11 as amended: no block is read twice in succession; a block is read
\* again only after the read of another block has replaced the buffer's
\* contents, and a request for a sector that is resident issues no read.
C11_NoBlockReadTwiceInSuccession ==
    /\ \A i \in 1..(Len(hist.reads) - 1) : hist.reads[i] # hist.reads[i + 1]
    /\ (ev.op = "next" /\ ev.sector_ret /\ ~ev.panic
          /\ Contains(ev.before.loaded_sectors,
                      FirstSectorOf(ev.mid.cluster_index) + ev.mid.cluster_sector_index))
         => ev.reads = <<>>

\* C11 witness: a walk of the chain 2 -> FarCluster that read the block of
\* the FAT twice, with the block of a data sector in between.
C11_Witness ==
    /\ TwoClusterChain
    /\ pc = "done"
    /\ \E i \in 1..(Len(hist.reads) - 2) :
          hist.reads[i] = hist.reads[i + 2] /\ hist.reads[i] # hist.reads[i + 1]

\* C12: ClusterWalker::open (reached through walk_directory) on a cluster
\* index below 2 fails with InvalidCluster: the failure is returned to the
\* caller, no walker is returned, no device read is issued for a sector
\* computed from cluster_index - 2, and the subtraction does not underflow.
C12_OpenRejectsClusterBelowTwo ==
    (ev.op = "walk_directory" /\ hist.start < 2) =>
        /\ walker = NoWalker
        /\ ev.reads = <<>>
        /\ ~ev.underflow
        /\ pc # "panic"

\* C13: when the FAT entry of the walker's current cluster is BadCluster
\* (masked value 0x0FFFFFF7), next_cluster and DirectoryWalker::next report
\* a CorruptedChain failure to the caller: the process is not aborted, no
\* walker is returned and end of chain is not reported.
C13_BadClusterIsReported ==
    (ev.op = "next" /\ ev.lookup.result.tag = "BadCluster") =>
        /\ ev.ret \notin {"some", "none"}
        /\ walker = NoWalker
        /\ ~ev.panic
        /\ pc # "panic"

\* The low 28 bits of the little-endian word b, and b with its top 4 bits
\* cleared.
Low28(b) == b[1] + 256 * b[2] + 65536 * b[3] + 16777216 * (b[4] % 16)

ClearTop(b) == <<b[1], b[2], b[3], b[4] % 16>>

Decode(b) == get_entry(b, 0).result

\* C7: get_entry classifies the little-endian word at the offset by its low
\* 28 bits m: EndOfChain iff m >= 0x0FFFFFF8, BadCluster iff m = 0x0FFFFFF7,
\* NextClusterIndex(m) otherwise; decode(raw) = decode(raw & 0x0FFFFFFF),
\* decode(0xFFFFFFFF) = EndOfChain, decode(0x0FFFFFF6) =
\* NextClusterIndex(0x0FFFFFF6), decode(0xF0000003) = NextClusterIndex(3).
C7_DecodeLow28 ==
    (ev.op = "get_entry" /\ ~ev.panic) =>
        LET m == Low28(ev.bytes)
        IN  /\ ev.bytes = SubSeq(fat_bytes, ev.offset + 1, ev.offset + 4)
            /\ (ev.result.tag = "EndOfChain") <=> (m >= 268435448)
            /\ (ev.result.tag = "BadCluster") <=> (m = 268435447)
            /\ (m < 268435447) <=> (ev.result = [tag |-> "NextClusterIndex", n |-> m])
            /\ ev.result = Decode(ClearTop(ev.bytes))
            /\ ev.bytes = <<255, 255, 255, 255>> => ev.result.tag = "EndOfChain"
            /\ ev.bytes = <<246, 255, 255, 15>> =>
                  ev.result = [tag |-> "NextClusterIndex", n |-> 268435446]
            /\ ev.bytes = <<3, 0, 0, 240>> =>
                  ev.result = [tag |-> "NextClusterIndex", n |-> 3]

\* C7 witness: the word 0xF0000003 decoded at offset 4 as cluster 3.
C7_Witness ==
    /\ ev.op = "get_entry" /\ ~ev.panic
    /\ ev.offset = 4
    /\ ev.bytes = <<3, 0, 0, 240>>
    /\ ev.result = [tag |-> "NextClusterIndex", n |-> 3]

\* ------------------------------------------------------------------------
\* Properties of the mount (SpecMount)
\* ------------------------------------------------------------------------

\* The whole of sector 0 reached the scratch buffer of the mount.
BpbWasRead == device.len >= BIOS_PARAMETER_BLOCK_SIZE

\* sectors_per_fat of the BPB as limbs.
ExactSectorsPerFat ==
    IF bpb.sectors_per_fat_16 # 0 THEN U32(bpb.sectors_per_fat_16)
    ELSE bpb.sectors_per_fat_32

\* ceil(root_entry_count * 32 / bytes_per_sector) in the integers.
ExactRootDirSectors ==
    ((bpb.root_entry_count * 32) + (bpb.bytes_per_sector - 1)) \div bpb.bytes_per_sector

\* reserved_sector_count + fat_count * sectors_per_fat + root directory
\* sectors in the integers, as top * 2^16 + low with low unbounded.
ExactMetaSectors ==
    [top |-> bpb.fat_count * ExactSectorsPerFat.hi,
     low |-> (bpb.fat_count * ExactSectorsPerFat.lo) + bpb.reserved_sector_count
               + ExactRootDirSectors]

\* The meta sector count fits a u32.
MetaFitsU32 == ExactMetaSectors.top + (ExactMetaSectors.low \div 65536) < 65536

\* total_sectors of the BPB as limbs.
ExactTotalSectors ==
    IF bpb.total_sectors_16 # 0 THEN U32(bpb.total_sectors_16) ELSE bpb.total_sectors_32

\* total_sectors >= meta_sectors in the integers.
TotalCoversMeta ==
    LET MetaHi == ExactMetaSectors.top + (ExactMetaSectors.low \div 65536)
        MetaLo == ExactMetaSectors.low % 65536
    IN  \/ ExactTotalSectors.hi > MetaHi
        \/ ExactTotalSectors.hi = MetaHi /\ ExactTotalSectors.lo >= MetaLo

\* C15: a mount whose cluster count is below 65525 (Fat12 or Fat16) is
\* refused with an error handed to the caller: it does not abort and it
\* leaves no filesystem object.
C15_SmallVolumeIsRefused ==
    (ev.op = "open" /\ ev.variant \in {"Fat12", "Fat16"})
        => (pc # "panic" /\ ~ev.panic /\ fs = NoFs)

\* C16: a mount whose arithmetic leaves the u32 range (a volume smaller
\* than its metadata, a meta sector count past 2^32 - 1, bytes_per_sector
\* = 0, sectors_per_cluster = 0) is refused with an error: it neither
\* aborts nor yields a geometry.
C16_MalformedBpbIsRefused ==
    (/\ ev.op = "open"
     /\ BpbWasRead
     /\ \/ bpb.bytes_per_sector = 0
        \/ bpb.sectors_per_cluster = 0
        \/ ~MetaFitsU32
        \/ ~TotalCoversMeta)
        => (pc # "panic" /\ ~ev.panic /\ fs = NoFs)

\* (total_sectors - meta_sectors) div sectors_per_cluster in the integers,
\* for a BPB whose sums stay small.
ExactClusterCount ==
    (U32_value(ExactTotalSectors)
        - ((ExactMetaSectors.top * 65536) + ExactMetaSectors.low))
            \div bpb.sectors_per_cluster

\* C17: the variant the mount picks is Fat12 when the cluster count is
\* below 4085, Fat16 from 4085 to 65524 and Fat32 from 65525 on; the
\* cluster count is (total_sectors - meta_sectors) div sectors_per_cluster
\* with total_sectors the 16-bit total unless that is zero.
C17_VariantFromClusterCount ==
    (ev.op = "open" /\ ev.variant # "none")
        => /\ ev.variant =
                 IF ev.count_of_clusters.hi = 0 /\ ev.count_of_clusters.lo <= 4084
                 THEN "Fat12"
                 ELSE IF ev.count_of_clusters.hi = 0 /\ ev.count_of_clusters.lo <= 65524
                 THEN "Fat16"
                 ELSE "Fat32"
           /\ (MetaFitsU32 /\ TotalCoversMeta)
                 => ev.count_of_clusters = U32(ExactClusterCount)

\* A 16-bit total that differs from the 32-bit one puts the volume at 4085
\* clusters: Fat16.
C17_Witness ==
    /\ ev.op = "open"
    /\ bpb.total_sectors_16 # 0
    /\ U32(bpb.total_sectors_16) # bpb.total_sectors_32
    /\ ev.count_of_clusters = U32(4085)
    /\ ev.variant = "Fat16"

\* C18: the geometry of a mounted Fat32 volume is the BPB's: sector size,
\* cluster size, first FAT sector = reserved sectors, root cluster, and
\* first data sector = reserved + fat_count * sectors_per_fat + root
\* directory sectors, untruncated.
C18_GeometryMatchesBpb ==
    (ev.op = "open" /\ fs # NoFs)
        => /\ fs.variant = "Fat32"
           /\ fs.geo.sector_size_bytes = bpb.bytes_per_sector
           /\ fs.geo.cluster_size_sectors = bpb.sectors_per_cluster
           /\ fs.geo.first_fat_sector = bpb.reserved_sector_count
           /\ fs.root_cluster = bpb.root_cluster
           /\ fs.geo.first_data_sector \div 65536
                 = ExactMetaSectors.top + (ExactMetaSectors.low \div 65536)
           /\ fs.geo.first_data_sector % 65536 = ExactMetaSectors.low % 65536

\* C19: a geometry the mount yields has a sector size of 512, 1024, 2048
\* or 4096 bytes, a cluster size that is a power of two, and its first FAT
\* sector at or before its first data sector.
C19_GeometryInvariant ==
    fs # NoFs
        => /\ fs.geo.sector_size_bytes \in {512, 1024, 2048, 4096}
           /\ fs.geo.cluster_size_sectors \in {1, 2, 4, 8, 16, 32, 64, 128}
           /\ fs.geo.first_fat_sector <= fs.geo.first_data_sector

\* C23: the read of sector 0 at mount passes read_blocks a destination
\* whose length is a positive multiple of the block size, for every device
\* whose block size is a power of two from 512 on.
C23_MountReadIsBlockMultiple ==
    (ev.op = "open" /\ device.block_size \in {512, 1024, 2048, 4096})
        => /\ ev.read_len > 0
           /\ ev.read_len % device.block_size = 0
           /\ ev.cause # "read_blocks"

\* ------------------------------------------------------------------------
\* Properties of FATFileSystem::read (Spec)
\* ------------------------------------------------------------------------

\* The volume byte offset of the first sector of a cluster.
ClusterByteOffset(c) ==
    (fs.geo.first_data_sector + ((c - 2) * fs.geo.cluster_size_sectors))
        * fs.geo.sector_size_bytes

\* C20: read(first_cluster, buffer) fills the buffer with the bytes of the
\* volume from the first sector of that cluster on, whatever the block size
\* of the device and the sector size of the volume.
C20_ReadFillsFromClusterStart ==
    (ev.op = "read" /\ ev.cluster >= 2)
        => /\ ~ev.panic
           /\ \A k \in 1..Len(ev.dest) :
                 ev.dest[k] = (ClusterByteOffset(ev.cluster)
                                 \div Grain(fs.geo.sector_size_bytes, device.block_size))
                                + (k - 1)

\* ------------------------------------------------------------------------
\* The loaded range of the ReadBuffer (SpecRB)
\* ------------------------------------------------------------------------

\* The bytes of the loaded range.
RBLoadedBytes == (rb.loaded_sectors[2] - rb.loaded_sectors[1]) * rb.sector_size_bytes

\* C26: with loaded_sectors = [a, b), a * sector_size is a multiple of the
\* block size, (b - a) * sector_size exceeds neither the bytes the last
\* refill got from the device nor the buffer, the buffer holds in those
\* bytes what the device holds from a * sector_size on, and every slice
\* handed out lies inside them: no partial or stale sector is visible.
C26_LoadedRangeIsWholeAndFresh ==
    (pc = "rb" /\ rb.loaded_sectors # None) =>
        /\ rb.loaded_sectors[1] < rb.loaded_sectors[2]
        /\ (rb.loaded_sectors[1] * rb.sector_size_bytes) % device.block_size = 0
        /\ RBLoadedBytes <= Len(rb.buffer) * RBGrain
        /\ (ev.op \in {"get_sector", "ensure_sector"} /\ ev.reads # <<>>)
              => RBLoadedBytes <= RBBlocksRead * device.block_size
        /\ \A k \in 1..(RBLoadedBytes \div RBGrain) :
              rb.buffer[k] = ((rb.loaded_sectors[1] * rb.sector_size_bytes) \div RBGrain)
                               + (k - 1)
        /\ (ev.op \in {"get_sector", "get_loaded_sector"} /\ ev.range # <<0, 0>>)
              => /\ 0 <= ev.range[1]
                 /\ ev.range[1] < ev.range[2]
                 /\ ev.range[2] <= RBLoadedBytes
                 /\ ev.slice = DeviceSector(rb.sector_size_bytes, RBGrain, ev.sector)

\* A refill near the end of the device fills part of the buffer only, and
\* a later peek hands out the last sector that was loaded.
C26_Witness ==
    /\ pc = "rb"
    /\ rb.loaded_sectors # None
    /\ RBLoadedBytes < Len(rb.buffer) * RBGrain
    /\ ev.op = "get_loaded_sector"
    /\ ev.some
    /\ ev.sector = rb.loaded_sectors[2] - 1
    /\ ev.sector > rb.loaded_sectors[1]

\* ------------------------------------------------------------------------
\* SpecLfn: LongFileNameEntry::chars over one 32-byte record
\* ------------------------------------------------------------------------

\* LongFileNameEntry::RANGE_PORTION1..3 as <<start, end>> (end excluded).
RANGE_PORTION(portion) ==
    IF portion = 1 THEN <<1, 11>> ELSE IF portion = 2 THEN <<14, 26>> ELSE <<28, 32>>

\* LongFileNameEntry::portion1..3: the bytes of the range (record bytes are
\* numbered from 0, sequences from 1).
portion(bytes, n) == SubSeq(bytes, RANGE_PORTION(n)[1] + 1, RANGE_PORTION(n)[2])

U16Iterator_next_be(slice, pos) ==
    IF pos >= Len(slice) THEN [tag |-> "None", panic |-> FALSE, value |-> 0]
    ELSE IF pos + 1 >= Len(slice) THEN [tag |-> "None", panic |-> TRUE, value |-> 0]
    ELSE [tag |-> "Some", panic |-> FALSE,
          value |-> (slice[pos + 1] * 256) + slice[pos + 2]]

\* U16Iterator::next at byte pos of the slice: two bytes, the first the low
\* one; a single byte left over is a panic.
U16Iterator_next(slice, pos) ==
    IF pos >= Len(slice) THEN [tag |-> "None", panic |-> FALSE, value |-> 0]
    ELSE IF pos + 1 >= Len(slice) THEN [tag |-> "None", panic |-> TRUE, value |-> 0]
    ELSE [tag |-> "Some", panic |-> FALSE,
          value |-> (slice[pos + 2] * 256) + slice[pos + 1]]

\* LongFileNameCharIterator::new
LongFileNameCharIterator_new(bytes) ==
    [live |-> TRUE, bytes |-> bytes, state |-> 1, pos |-> 0, nones |-> 0,
     halted |-> FALSE]

\* LongFileNameCharIterator::next: the loop over the three portions.  The
\* inner iterator has consumed the unit it returned, zero or not; only the
\* end of a portion changes the state.
RECURSIVE LongFileNameCharIterator_next(_)
LongFileNameCharIterator_next(it) ==
    LET Matched(inner) ==
            IF inner.panic THEN [ret |-> <<"panic">>, zero |-> FALSE, it |-> it]
            ELSE IF inner.tag = "Some" /\ inner.value = 0
            THEN [ret |-> <<"none">>, zero |-> TRUE, it |-> [it EXCEPT !.pos = @ + 2]]
            ELSE IF inner.tag = "Some"
            THEN [ret |-> <<"some", inner.value>>, zero |-> FALSE,
                  it |-> [it EXCEPT !.pos = @ + 2]]
            ELSE IF it.state < 3
            THEN LongFileNameCharIterator_next([it EXCEPT !.state = @ + 1, !.pos = 0])
            ELSE [ret |-> <<"none">>, zero |-> FALSE, it |-> it]
    IN  Matched(U16Iterator_next(portion(it.bytes, it.state), it.pos))

MaxLfnSpecial == 2

MaxLfnPolls == 15

\* Code units beside the 0xFFFF padding: zero, a unit whose low byte alone
\* is zero (0x0100), and 'H'.
LfnUnits == {<<0, 0>>, <<0, 1>>, <<72, 0>>}

\* The record that holds the thirteen units (byte pairs): order 0x41,
\* attribute 0x0F, type 0, checksum 0xAA, the zero field.
LfnRecord(units) ==
    <<65>> \o units[1] \o units[2] \o units[3] \o units[4] \o units[5]
      \o <<15, 0, 170>>
      \o units[6] \o units[7] \o units[8] \o units[9] \o units[10] \o units[11]
      \o <<0, 0>> \o units[12] \o units[13]

\* Records of 0xFFFF padding with a few other units in any place, and the
\* record whose first portion is H, i, 0, 0xFFFF, 0xFFFF.
LfnRecords ==
    {LfnRecord([k \in 1..13 |-> IF k \in DOMAIN f THEN f[k] ELSE <<255, 255>>]) :
        f \in UNION {[S -> LfnUnits] :
                        S \in {T \in SUBSET (1..13) : Cardinality(T) <= MaxLfnSpecial}}}
      \cup {LfnRecord([k \in 1..13 |->
                IF k = 1 THEN <<72, 0>> ELSE IF k = 2 THEN <<105, 0>>
                ELSE IF k = 3 THEN <<0, 0>> ELSE <<255, 255>>])}

InitLfn ==
    /\ \E bytes \in LfnRecords : lfn = LongFileNameCharIterator_new(bytes)
    /\ cell = NoCell
    /\ nodes_by_cluster = <<>>
    /\ device = [block_size |-> 512, len |-> 0]
    /\ overflow_checks = TRUE
    /\ bpb = NoBpb
    /\ fat = <<>>
    /\ dir = <<>>
    /\ fs = NoFs
    /\ walker = NoWalker
    /\ iter = NoIter
    /\ out = <<>>
    /\ hist = NoHist
    /\ rb = <<>>
    /\ fat_bytes = <<>>
    /\ ev = [op |-> "chars"]
    /\ pc = "lfn"

\* One call of next on the iterator; halted records that an earlier call
\* returned none at a zero unit.
CharsNext ==
    /\ pc = "lfn"
    /\ lfn.nones < MaxLfnPolls /\ Len(out) < MaxLfnPolls
    /\ \E r \in {LongFileNameCharIterator_next(lfn)} :
          /\ lfn' = [r.it EXCEPT
                        !.nones = IF r.ret[1] = "none" THEN @ + 1 ELSE @,
                        !.halted = @ \/ r.zero]
          /\ out' = IF r.ret[1] = "some" THEN Append(out, r.ret[2]) ELSE out
          /\ ev' = [op |-> "chars_next", ret |-> r.ret, halted |-> lfn.halted,
                    nones |-> lfn.nones]
          /\ pc' = IF r.ret[1] = "panic" THEN "panic" ELSE "lfn"
    /\ UNCHANGED <<cell, nodes_by_cluster, device, overflow_checks, bpb, fat, dir,
                   fs, walker, iter, hist, rb, fat_bytes>>

NextLfn == CharsNext

SpecLfn == InitLfn /\ [][NextLfn]_vars

\* ------------------------------------------------------------------------
\* Properties of the LFN character sequence (SpecLfn)
\* ------------------------------------------------------------------------

\* The thirteen code units of the record, in order: bytes 1..11, 14..26 and
\* 28..32, each unit low byte first.
LfnCodeUnits ==
    [k \in 1..13 |->
        LET at == IF k <= 5 THEN 1 + (2 * (k - 1))
                  ELSE IF k <= 11 THEN 14 + (2 * (k - 6))
                  ELSE 28 + (2 * (k - 12))
        IN  lfn.bytes[at + 1] + (256 * lfn.bytes[at + 2])]

\* The number of units before the first zero unit (13 if there is none).
LfnCutLen ==
    IF \E k \in 1..13 : LfnCodeUnits[k] = 0
    THEN (CHOOSE k \in 1..13 :
             LfnCodeUnits[k] = 0 /\ \A j \in 1..(k - 1) : LfnCodeUnits[j] # 0) - 1
    ELSE 13

\* C21: up to the first none, chars() yields the units of portion 1, 2 and
\* 3 in order, low byte first, cut off before the first zero unit: at most
\* 13 units, 0xFFFF included as data, and [0x48, 0x69] for H, i, 0, 0xFFFF,
\* 0xFFFF.
C21_CharsUntilFirstNone ==
    /\ (lfn.live /\ lfn.nones = 0)
          => /\ Len(out) <= LfnCutLen
             /\ out = SubSeq(LfnCodeUnits, 1, Len(out))
    /\ (lfn.live /\ lfn.nones = 1 /\ ev.op = "chars_next" /\ ev.ret = <<"none">>)
          => /\ out = SubSeq(LfnCodeUnits, 1, LfnCutLen)
             /\ Len(out) <= 13
             /\ (SubSeq(lfn.bytes, 2, 11) = <<72, 0, 105, 0, 0, 0, 255, 255, 255, 255>>)
                   => out = <<72, 105>>

\* The first none comes at a zero unit of portion 2, after 0xFFFF units and
\* a unit whose low byte is zero were yielded.
C21_Witness ==
    /\ lfn.live /\ lfn.nones = 1 /\ ev.op = "chars_next" /\ ev.ret = <<"none">>
    /\ lfn.state = 2
    /\ Len(out) > 5
    /\ 65535 \in {out[k] : k \in 1..Len(out)}
    /\ 256 \in {out[k] : k \in 1..Len(out)}

\* C22: once next has returned none at a zero unit, every later call
\* returns none: no unit stored after the zero is yielded.
C22_HaltedForGood ==
    (ev.op = "chars_next" /\ ev.halted) => ev.ret = <<"none">>

\* ------------------------------------------------------------------------
\* SpecCell: the RefCell of the shared device under several walkers
\* ------------------------------------------------------------------------
\* cell.borrows counts the live RefMut guards of the device; cell.call is
\* the refill in progress (one thread: at most one call runs, and a sink
\* callback runs between the refills of its walker, never inside one);
\* cell.stack lists the walkers whose enumerate_occupied_entries is inside
\* its sink; cell.walkers gives each walker's state and the number of next
\* calls it still takes.

MaxWalkers == 2

MaxCellNexts == 2

NoCall == [w |-> 0, step |-> "none", then |-> "none"]

drop_RefMut_leak(c) == c

\* The RefMut guard of read_block_for_sector goes out of scope.
drop_RefMut(c) == [c EXCEPT !.borrows = @ - 1]

\* RefCell::borrow_mut: a second live borrow is a BorrowMutError panic.
borrow_mut(c) ==
    IF c.borrows > 0 THEN [c EXCEPT !.conflict = TRUE]
    ELSE [c EXCEPT !.borrows = 1]

InitCell ==
    /\ cell = [borrows |-> 0, conflict |-> FALSE, call |-> NoCall, stack |-> <<>>,
               walkers |-> [w \in 1..MaxWalkers |-> [at |-> "unopened", nexts |-> 0]]]
    /\ lfn = NoLfn
    /\ nodes_by_cluster = <<>>
    /\ device = [block_size |-> 512, len |-> 0]
    /\ overflow_checks = TRUE
    /\ bpb = NoBpb
    /\ fat = <<>>
    /\ dir = <<>>
    /\ fs = NoFs
    /\ walker = NoWalker
    /\ iter = NoIter
    /\ out = <<>>
    /\ hist = NoHist
    /\ rb = <<>>
    /\ fat_bytes = <<>>
    /\ ev = [op |-> "new"]
    /\ pc = "cell"

\* The walkers the running code can call: no refill is in progress and the
\* walker is not the one whose sink is running.
Callable(w) ==
    /\ pc = "cell"
    /\ cell.call = NoCall
    /\ \A k \in 1..Len(cell.stack) : cell.stack[k] # w

cell_frame == <<lfn, nodes_by_cluster, device, overflow_checks, bpb, fat, dir, fs,
                walker, iter, out, hist, rb, fat_bytes>>

\* FATFileSystem::walk_directory with a buffer of its own: ClusterWalker::
\* open loads the first sector, always a refill.
CellWalkDirectory ==
    \E w \in 1..MaxWalkers :
        /\ Callable(w)
        /\ cell.walkers[w].at = "unopened"
        /\ cell' = [cell EXCEPT !.call = [w |-> w, step |-> "borrow_mut", then |-> "open"]]
        /\ ev' = [op |-> "walk_directory", w |-> w]
        /\ UNCHANGED <<pc, cell_frame>>

\* DirectoryWalker::next: the next sector is resident or is read; at the
\* end of a cluster the FAT sector is resident or is read, and the chain
\* goes on or ends.
CellNext ==
    \E w \in 1..MaxWalkers :
        /\ Callable(w)
        /\ cell.walkers[w].at = "open"
        /\ cell.walkers[w].nexts < MaxCellNexts
        /\ \E refill \in BOOLEAN, then \in {"open", "ended"} :
              cell' = [cell EXCEPT
                          !.walkers[w].nexts = @ + 1,
                          !.walkers[w].at = IF refill THEN @ ELSE then,
                          !.call = IF refill
                                   THEN [w |-> w, step |-> "borrow_mut", then |-> then]
                                   ELSE NoCall]
        /\ ev' = [op |-> "next", w |-> w]
        /\ UNCHANGED <<pc, cell_frame>>

\* enumerate_occupied_entries hands an entry of the walker's current sector
\* to the sink.
CellEnterSink ==
    \E w \in 1..MaxWalkers :
        /\ Callable(w)
        /\ cell.walkers[w].at = "open"
        /\ cell' = [cell EXCEPT !.stack = Append(@, w)]
        /\ ev' = [op |-> "sink", w |-> w]
        /\ UNCHANGED <<pc, cell_frame>>

\* The sink returns.
CellLeaveSink ==
    /\ pc = "cell"
    /\ cell.call = NoCall
    /\ cell.stack # <<>>
    /\ cell' = [cell EXCEPT !.stack = SubSeq(@, 1, Len(@) - 1)]
    /\ ev' = [op |-> "sink_return", w |-> cell.stack[Len(cell.stack)]]
    /\ UNCHANGED <<pc, cell_frame>>

\* read_block_for_sector, first statement: self.device.borrow_mut().
CellBorrowMut ==
    /\ pc = "cell"
    /\ cell.call.step = "borrow_mut"
    /\ \E c \in {borrow_mut(cell)} :
          /\ cell' = IF c.conflict THEN c ELSE [c EXCEPT !.call.step = "read_blocks"]
          /\ pc' = IF c.conflict THEN "panic" ELSE pc
    /\ ev' = [op |-> "borrow_mut", w |-> cell.call.w]
    /\ UNCHANGED cell_frame

\* read_block_for_sector, device.read_blocks and the assertion on its
\* result: a panic unwinds and drops the guard.
CellReadBlocks ==
    /\ pc = "cell"
    /\ cell.call.step = "read_blocks"
    /\ \E ok \in BOOLEAN :
          /\ cell' = IF ok THEN [cell EXCEPT !.call.step = "return"]
                     ELSE drop_RefMut(cell)
          /\ pc' = IF ok THEN pc ELSE "panic"
    /\ ev' = [op |-> "read_blocks", w |-> cell.call.w]
    /\ UNCHANGED cell_frame

\* read_block_for_sector returns: the guard is dropped at the end of the
\* function.
CellReturn ==
    /\ pc = "cell"
    /\ cell.call.step = "return"
    /\ cell' = [drop_RefMut(cell) EXCEPT !.call = NoCall,
                                         !.walkers[cell.call.w].at = cell.call.then]
    /\ ev' = [op |-> "return", w |-> cell.call.w]
    /\ UNCHANGED <<pc, cell_frame>>

NextCell ==
    \/ CellWalkDirectory \/ CellNext \/ CellEnterSink \/ CellLeaveSink
    \/ CellBorrowMut \/ CellReadBlocks \/ CellReturn

SpecCell == InitCell /\ [][NextCell]_vars

\* C24: at most one mutable borrow of the device is live at any moment, no
\* borrow_mut is attempted while one is live, and the borrow of a refill is
\* released by the time the refill has returned, whatever the interleaving
\* of the walkers' operations and however their sinks nest.
C24_OneMutableBorrow ==
    pc = "cell"
        => /\ cell.borrows <= 1
           /\ ~cell.conflict
           /\ (cell.call = NoCall => cell.borrows = 0)
           /\ (ev.op = "borrow_mut" => cell.borrows = 1)

\* A walker opened from inside the sink of another holds the borrow while
\* the outer walker is open and its buffer loaded.
C24_Witness ==
    /\ pc = "cell"
    /\ Len(cell.stack) >= 1
    /\ cell.call.step = "read_blocks"
    /\ cell.call.then = "open"
    /\ cell.walkers[cell.call.w].at = "unopened"
    /\ cell.borrows = 1
    /\ cell.walkers[cell.stack[1]].nexts > 0

\* ------------------------------------------------------------------------
\* Further properties of the walk (Spec)
\* ------------------------------------------------------------------------

\* The device block that holds a sector of the volume.
BlockOfSector(sector) == (sector * fs.geo.sector_size_bytes) \div device.block_size

\* C25: a chain step from cluster c makes FAT sector first_fat_sector +
\* (4 * c) div sector_size_bytes resident, decodes the entry at offset
\* (4 * c) mod sector_size_bytes of it, and only then loads a data sector
\* of the cluster that entry names; it asks for no other FAT sector and
\* for no sector of a cluster further down the chain, and a step inside a
\* cluster asks for no FAT sector at all.
C25_ChainStepOrder ==
    /\ (ev.op = "next" /\ ev.sector_ret) => ev.lookup = NoLookup
    /\ (ev.op = "next" /\ ~ev.sector_ret /\ ev.ret \in {"some", "none"}) =>
          LET c        == ev.before.cluster_index
              FatBlock == BlockOfSector(ev.lookup.fat_sector)
          IN  /\ ev.lookup.fat_sector
                    = fs.geo.first_fat_sector + ((4 * c) \div fs.geo.sector_size_bytes)
              /\ ev.lookup.ent_offset = (4 * c) % fs.geo.sector_size_bytes
              /\ ev.lookup.bytes = fat[c]
              /\ ~Contains(ev.mid.loaded_sectors, ev.lookup.fat_sector)
                    => (ev.reads # <<>> /\ ev.reads[1] = FatBlock)
              /\ ev.ret = "none" => ev.reads \in {<<>>, <<FatBlock>>}
              /\ ev.ret = "some" =>
                    LET DataBlock == BlockOfSector(
                            fs.geo.first_data_sector
                              + ((walker.cluster_index - 2) * fs.geo.cluster_size_sectors)
                              + walker.cluster_sector_index)
                    IN  /\ walker.cluster_index = ev.lookup.result.n
                        /\ ev.reads \in {<<>>, <<FatBlock>>, <<DataBlock>>,
                                         <<FatBlock, DataBlock>>}

\* A step from cluster 2 to the far cluster reads the FAT block and then
\* the data block, two different blocks.
C25_Witness ==
    /\ ev.op = "next" /\ ~ev.sector_ret /\ ev.ret = "some"
    /\ ev.before.cluster_index = 2
    /\ walker.cluster_index = FarCluster
    /\ Len(ev.reads) = 2
    /\ ev.reads[1] = BlockOfSector(ev.lookup.fat_sector)
    /\ ev.reads[1] # ev.reads[2]

\* C28: a walker that next hands back stands on a cluster from 2 on, and
\* no step of the walk underflows cluster_index - 2: a FAT entry whose
\* masked value is 0 or 1 never puts a walker on cluster 0 or 1.
C28_NoClusterBelowTwo ==
    /\ (ev.op = "next" /\ WalkerLive) => walker.cluster_index >= 2
    /\ ev.op = "next" => (~ev.underflow /\ (ev.lookup.result.tag = "NextClusterIndex"
                                               => ev.lookup.result.n >= 2))

\* C29: when the chain of the directory reaches end of chain after k
\* clusters without repeating one, the enumeration ends: next returns none
\* after finitely many steps, by then at most k * cluster_size_sectors data
\* sectors and at most k FAT entries were asked for, whatever the records
\* of the directory hold.
C29_WalkTerminates ==
    /\ [](DirectoryChain # <<-1>> =>
            /\ hist.lookups <= Len(DirectoryChain)
            /\ hist.sectors <= Len(DirectoryChain) * bpb.sectors_per_cluster)
    /\ (WalkerLive /\ DirectoryChain # <<-1>>) ~> (pc = "done")

\* A walk over two clusters of two sectors has ended after two look-ups,
\* in a directory that holds a terminator.
C29_Witness ==
    /\ pc = "done"
    /\ Len(DirectoryChain) = 2
    /\ DirectoryChain # <<-1>>
    /\ bpb.sectors_per_cluster = 2
    /\ hist.lookups = 2
    /\ hist.sectors >= 3
    /\ hist.term_len # -1

\* ------------------------------------------------------------------------
\* SpecEntries: one occupied_entries sequence polled by its caller
\* ------------------------------------------------------------------------

EntriesRecords == 5

MaxEntryPolls == 7

\* The records of one sector: byte 0 of each is a terminator, a deleted
\* mark or the first character of a name.
InitEntries ==
    /\ InitSide
    /\ \E b0 \in [1..EntriesRecords -> {Terminator, Deleted, Occupied}] :
          iter = [live |-> TRUE,
                  chunks |-> [k \in 1..EntriesRecords |->
                                 [addr |-> (k - 1) * DirectoryEntry_SIZE, b0 |-> b0[k]]],
                  yielded |-> <<>>, polls |-> 0, halted |-> FALSE]
    /\ device = [block_size |-> 512, len |-> 0]
    /\ overflow_checks = TRUE
    /\ bpb = NoBpb
    /\ fat = <<>>
    /\ dir = <<>>
    /\ fs = NoFs
    /\ walker = NoWalker
    /\ out = <<>>
    /\ hist = NoHist
    /\ rb = <<>>
    /\ fat_bytes = <<>>
    /\ ev = [op |-> "occupied_entries"]
    /\ pc = "entries"

\* One call of DirectoryEntriesIterator::next by a caller that goes on
\* polling after a None; halted records that a None came from a terminator.
EntriesPoll ==
    /\ pc = "entries"
    /\ iter.polls < MaxEntryPolls
    /\ \E r \in {DirectoryEntriesIterator_next(iter.chunks)} :
           /\ iter' = [iter EXCEPT !.chunks = r.chunks,
                                   !.yielded = IF r.some THEN Append(@, r.entry) ELSE @,
                                   !.polls = @ + 1,
                                   !.halted = @ \/ r.term]
           /\ out' = IF r.some THEN Append(out, r.entry) ELSE out
           /\ ev' = [op |-> "entries_poll", some |-> r.some, entry |-> r.entry,
                     term |-> r.term, halted |-> iter.halted]
    /\ UNCHANGED <<side_vars, device, overflow_checks, bpb, fat, dir, fs, walker, hist,
                   rb, fat_bytes, pc>>

NextEntries == EntriesPoll

SpecEntries == InitEntries /\ [][NextEntries]_vars

\* C27: once the sequence has returned none at a record whose byte 0 is
\* 0x00, every later call returns none: the records after the terminator
\* are never returned.
C27_TerminatedForGood ==
    (ev.op = "entries_poll" /\ ev.halted) => ~ev.some

\* ------------------------------------------------------------------------
\* SpecFuse: the FUSE host adapter's table of nodes under lookup and forget
\* ------------------------------------------------------------------------

\* The root inode of the fuse crate.
FUSE_ROOT_ID == 1

\* Largest reference_count the model lets a lookup reach, and largest
\* nlookup it hands to forget.
MaxRefs == 3

MaxForget == 3

\* First clusters found in directory records: 0 (the ".." of a directory
\* under the root), an ordinary cluster, and 0xFFFFFFF1, whose inode number
\* does not fit a u32.
FuseClusters == {U32(0), U32(3), [hi |-> 65535, lo |-> 65521]}

FuseNames == {"A", "B"}

\* The inodes the kernel may name: the root, those of FuseClusters (the
\* last one as the wrapping sum gives it), and one never handed out.
FuseInodes == {U32(FUSE_ROOT_ID), U32(16), U32(19), U32(40)}

\* The occupied entries a directory of the image holds, in order.
FuseEntries ==
    {[tag |-> "LongFileName"]}
        \cup {[tag |-> "Standard", name |-> n, first_cluster |-> c] :
                 n \in FuseNames, c \in FuseClusters}

FuseListings ==
    {<<>>} \cup {<<e>> : e \in FuseEntries}
           \cup {<<e1, e2>> : e1 \in FuseEntries, e2 \in FuseEntries}

\* FSImpl::cluster_index_to_inode: cluster_index + 16 in u32.
cluster_index_to_inode(cluster_index, checks) ==
    LET Widened(sum) == [panic |-> checks /\ sum.overflow, inode |-> sum.value]
    IN  Widened(u32_add(cluster_index, U32(16)))

\* FSImpl::inode_to_cluster_index: (inode - 16) as u32, for an inode below
\* 2^32.
inode_to_cluster_index(inode, checks) ==
    LET Narrowed(diff) == [panic |-> checks /\ diff.overflow, cluster_index |-> diff.value]
    IN  Narrowed(u32_sub(inode, U32(16)))

\* FSImpl::get_directory_selector.
get_directory_selector(nodes, inode, checks) ==
    LET Selected(k) ==
            IF k.panic THEN [panic |-> TRUE, selector |-> <<"None">>]
            ELSE IF k.cluster_index \in DOMAIN nodes
            THEN [panic |-> FALSE,
                  selector |-> <<"Normal", nodes[k.cluster_index].first_cluster>>]
            ELSE [panic |-> FALSE, selector |-> <<"None">>]
    IN  IF inode = U32(FUSE_ROOT_ID)
        THEN [panic |-> FALSE, selector |-> <<"Root">>]
        ELSE Selected(inode_to_cluster_index(inode, checks))

\* The first Standard entry of the listing with the name looked for; 0 when
\* there is none (LongFileName entries are passed over).
RECURSIVE FirstMatch(_, _, _)
FirstMatch(listing, name, i) ==
    IF i > Len(listing) THEN 0
    ELSE IF listing[i].tag = "Standard" /\ listing[i].name = name THEN i
    ELSE FirstMatch(listing, name, i + 1)

\* The table with the entry of a cluster removed.
Removed(nodes, cluster) == [k \in DOMAIN nodes \ {cluster} |-> nodes[k]]

\* entry(cluster).or_insert_with(..) followed by reference_count += 1.
Referenced(nodes, cluster) ==
    [k \in DOMAIN nodes \cup {cluster} |->
        IF k = cluster
        THEN [reference_count |->
                  (IF cluster \in DOMAIN nodes THEN nodes[cluster].reference_count ELSE 0) + 1,
              first_cluster |-> cluster]
        ELSE nodes[k]]

\* FSImpl::lookup on a directory whose walk delivers the listing, or panics
\* before it delivers the entry looked for (walk_ok = FALSE).
FSImpl_lookup(nodes, parent_inode, name, listing, walk_ok, checks) ==
    LET Answer(reply, cluster, table) ==
            [reply |-> reply, cluster |-> cluster, nodes |-> table]
        Found(cluster) ==
            IF cluster \notin DOMAIN nodes /\ cluster_index_to_inode(cluster, checks).panic
            THEN Answer("panic", cluster, nodes)
            ELSE Answer("entry", cluster, Referenced(nodes, cluster))
        Searched(i) ==
            IF i = 0 THEN Answer("ENOENT", U32(0), nodes)
            ELSE Found(listing[i].first_cluster)
        Walked(sel) ==
            IF sel.panic THEN Answer("panic", U32(0), nodes)
            ELSE IF sel.selector = <<"None">> THEN Answer("ENOENT", U32(0), nodes)
            ELSE IF ~walk_ok THEN Answer("panic", U32(0), nodes)
            ELSE Searched(FirstMatch(listing, name, 1))
    IN  Walked(get_directory_selector(nodes, parent_inode, checks))

\* forget that removes the entry only when the count is below nlookup.
FSImpl_forget_keeps_zero(nodes, ino, nlookup, checks) ==
    LET Forgotten(k) ==
            IF k.panic THEN [panic |-> TRUE, key |-> k.cluster_index, nodes |-> nodes]
            ELSE IF k.cluster_index \notin DOMAIN nodes
            THEN [panic |-> FALSE, key |-> k.cluster_index, nodes |-> nodes]
            ELSE IF nodes[k.cluster_index].reference_count >= nlookup
            THEN [panic |-> FALSE, key |-> k.cluster_index,
                  nodes |-> [nodes EXCEPT ![k.cluster_index].reference_count = @ - nlookup]]
            ELSE [panic |-> FALSE, key |-> k.cluster_index,
                  nodes |-> Removed(nodes, k.cluster_index)]
    IN  Forgotten(inode_to_cluster_index(ino, checks))

\* FSImpl::forget.
FSImpl_forget(nodes, ino, nlookup, checks) ==
    LET Forgotten(k) ==
            IF k.panic THEN [panic |-> TRUE, key |-> k.cluster_index, nodes |-> nodes]
            ELSE IF k.cluster_index \notin DOMAIN nodes
            THEN [panic |-> FALSE, key |-> k.cluster_index, nodes |-> nodes]
            ELSE IF nodes[k.cluster_index].reference_count > nlookup
            THEN [panic |-> FALSE, key |-> k.cluster_index,
                  nodes |-> [nodes EXCEPT ![k.cluster_index].reference_count = @ - nlookup]]
            ELSE [panic |-> FALSE, key |-> k.cluster_index,
                  nodes |-> Removed(nodes, k.cluster_index)]
    IN  Forgotten(inode_to_cluster_index(ino, checks))

\* FSImpl::open: an empty table over an image whose directories hold one
\* of the listings.
InitFuse ==
    /\ lfn = NoLfn
    /\ cell = NoCell
    /\ nodes_by_cluster = [k \in {} |-> 0]
    /\ dir \in FuseListings
    /\ overflow_checks \in BOOLEAN
    /\ device = [block_size |-> 512, len |-> 0]
    /\ bpb = NoBpb
    /\ fat = <<>>
    /\ fs = NoFs
    /\ walker = NoWalker
    /\ iter = NoIter
    /\ out = <<>>
    /\ hist = NoHist
    /\ rb = <<>>
    /\ fat_bytes = <<>>
    /\ ev = [op |-> "open"]
    /\ pc = "fuse"

\* One lookup request of the kernel.
FuseLookup ==
    /\ pc = "fuse"
    /\ \E parent_inode \in FuseInodes, name \in FuseNames, walk_ok \in BOOLEAN :
          \E r \in {FSImpl_lookup(nodes_by_cluster, parent_inode, name, dir,
                                  walk_ok, overflow_checks)} :
              /\ \A k \in DOMAIN r.nodes : r.nodes[k].reference_count <= MaxRefs
              /\ nodes_by_cluster' = r.nodes
              /\ ev' = [op |-> "lookup", reply |-> r.reply, key |-> r.cluster,
                        nlookup |-> 0, before |-> nodes_by_cluster]
              /\ pc' = IF r.reply = "panic" THEN "panic" ELSE "fuse"
    /\ UNCHANGED <<lfn, cell, device, overflow_checks, bpb, fat, dir, fs, walker,
                   iter, out, hist, rb, fat_bytes>>

\* One forget request of the kernel.
FuseForget ==
    /\ pc = "fuse"
    /\ \E ino \in FuseInodes, nlookup \in 0..MaxForget :
          \E r \in {FSImpl_forget(nodes_by_cluster, ino, nlookup, overflow_checks)} :
              /\ nodes_by_cluster' = r.nodes
              /\ ev' = [op |-> "forget", reply |-> IF r.panic THEN "panic" ELSE "none",
                        key |-> r.key, nlookup |-> nlookup,
                        before |-> nodes_by_cluster]
              /\ pc' = IF r.panic THEN "panic" ELSE "fuse"
    /\ UNCHANGED <<lfn, cell, device, overflow_checks, bpb, fat, dir, fs, walker,
                   iter, out, hist, rb, fat_bytes>>

NextFuse == FuseLookup \/ FuseForget

SpecFuse == InitFuse /\ [][NextFuse]_vars

\* The reference count of a cluster in a table, 0 when it has no entry.
CountIn(nodes, cluster) ==
    IF cluster \in DOMAIN nodes THEN nodes[cluster].reference_count ELSE 0

\* The two tables agree on every cluster but the one named.
SameElsewhere(a, b, cluster) ==
    /\ DOMAIN a \ {cluster} = DOMAIN b \ {cluster}
    /\ \A k \in DOMAIN a \ {cluster} : a[k] = b[k]

\* C30: every entry of nodes_by_cluster has reference_count >= 1; a lookup
\* that replies with an entry creates it on first sight and adds exactly
\* one to its count, any other lookup leaves the table alone; forget
\* subtracts nlookup when the count is greater and removes the entry
\* otherwise, and on an absent entry changes nothing.
C30_ReferenceCounts ==
    /\ \A k \in DOMAIN nodes_by_cluster : nodes_by_cluster[k].reference_count >= 1
    /\ (ev.op = "lookup" /\ ev.reply = "entry") =>
           /\ ev.key \in DOMAIN nodes_by_cluster
           /\ CountIn(nodes_by_cluster, ev.key) = CountIn(ev.before, ev.key) + 1
           /\ SameElsewhere(ev.before, nodes_by_cluster, ev.key)
    /\ (ev.op = "lookup" /\ ev.reply # "entry") => nodes_by_cluster = ev.before
    /\ (ev.op = "forget" /\ ev.reply # "panic") =>
           /\ SameElsewhere(ev.before, nodes_by_cluster, ev.key)
           /\ CountIn(nodes_by_cluster, ev.key) =
                  IF CountIn(ev.before, ev.key) > ev.nlookup
                  THEN CountIn(ev.before, ev.key) - ev.nlookup
                  ELSE 0
    /\ (ev.op = "forget" /\ ev.reply = "panic") => nodes_by_cluster = ev.before

\* A forget took part of the count of an entry that two lookups had
\* raised, beside another entry of the table.
C30_Witness ==
    /\ ev.op = "forget"
    /\ ev.nlookup >= 1
    /\ CountIn(ev.before, ev.key) > ev.nlookup
    /\ CountIn(nodes_by_cluster, ev.key) >= 1
    /\ Cardinality(DOMAIN nodes_by_cluster) >= 2

====
